---- MODULE Spec2Model ----
(***************************************************************************)
(* State-machine model of the quantum-blockchain-Genesis Node ledger       *)
(* (QuantumBlock / QuantumBlockchain with balance cache and transaction    *)
(* index) and of the QuantumConsensus validator registry.                  *)
(*                                                                         *)
(* JavaScript values are modelled as follows: strings are TLA+ strings,    *)
(* null and undefined are the two sentinel strings Null and Undefined, a   *)
(* hex digest is the sequence of its digits, numbers are integers.         *)
(***************************************************************************)
EXTENDS Integers, Sequences, FiniteSets, TLC

VARIABLES chain, pendingTransactions, balanceCache, transactionIndex,
          nextTxId, last,
          sealPc, candidate, poolAtCall,
          validators, validatorOrder, stakes, votingPower, currentEpoch, registryCalls,
          clock, lastEpochTime, selected,
          bridgeContract, lockedFunds, transfersByAddress,
          liquidityPools,
          validating,
          standalone, mining

ledgerVars == <<chain, pendingTransactions, balanceCache, transactionIndex, nextTxId>>
\* validatorOrder is the insertion order of the validators Map; selected is the
\* array the last selectValidators call returned
consensusVars == <<validators, validatorOrder, stakes, votingPower, currentEpoch,
                   registryCalls, clock, lastEpochTime, selected>>
\* the fields of BitcoinQuantumBridge and of QuantumDeFiProtocol
bridgeVars == <<bridgeContract, lockedFunds, transfersByAddress>>
defiVars == <<liquidityPools>>
\* the validateBlock calls that wait at their await
inFlightVars == <<validating>>
\* the standalone (browser) ledger, and its minePendingTransactions calls that
\* wait at their await
browserVars == <<standalone, mining>>
serviceVars == <<bridgeVars, defiVars, inFlightVars, browserVars>>
\* the seal in progress: where minePendingTransactions stands, the block it
\* has built, and the pending pool as it was when the call began
sealVars == <<sealPc, candidate, poolAtCall>>
vars == <<chain, pendingTransactions, balanceCache, transactionIndex, nextTxId, last,
          sealPc, candidate, poolAtCall,
          validators, validatorOrder, stakes, votingPower, currentEpoch, registryCalls,
          clock, lastEpochTime, selected,
          bridgeContract, lockedFunds, transfersByAddress,
          liquidityPools,
          validating,
          standalone, mining>>

----------------------------------------------------------------------------
(* Bounds of the model *)

\* longest chain explored (genesis included)
MaxChain == 3
\* most user transactions ever accepted by addTransaction
MaxTx == 2
\* number of digits of a digest (64 for a real sha3-256 hex digest)
HashLen == 5

(* Program constants *)
difficulty == 4
miningReward == 100

----------------------------------------------------------------------------
(* JavaScript values *)

Null == "null"
Undefined == "undefined"

\* JavaScript truthiness of a string-or-absent value
Truthy(v) == v \notin {Null, Undefined, ""}

\* obj.f, which is undefined when the object has no such property
Field(obj, f) == IF f \in DOMAIN obj THEN obj[f] ELSE Undefined

Addresses == {"A", "B"}
Amounts == {150}
\* block timestamps (Date.now())
Times == {1}
\* random quantum signatures / proofs
Proofs == {0}

\* what callers pass to addTransaction
TxInputs ==
    [fromAddress : {"A", Null},
     toAddress   : Addresses \cup {Undefined},
     amount      : Amounts,
     signature   : {"sig", "", Undefined}]

\* what callers pass as mining reward address (the HTTP route forwards
\* req.body.minerAddress unchecked) and as getBalance argument
RewardAddresses == {"A", ""}

----------------------------------------------------------------------------
(* Hasher: QuantumBlock.calculateHash *)

\* the digits of a digest: binary digits stand for the hex digits
HashDigits == {0, 1}
HashBase == Cardinality(HashDigits)

RECURSIVE Pow(_, _)
Pow(b, e) == IF e = 0 THEN 1 ELSE b * Pow(b, e - 1)

HashSpace == Pow(HashBase, HashLen)

RECURSIVE DigitsToNat(_)
DigitsToNat(s) ==
    IF s = <<>> THEN 0
    ELSE DigitsToNat(SubSeq(s, 1, Len(s) - 1)) * HashBase + s[Len(s)]

\* the digest as a string of HashLen digits, most significant first
NatToDigits(n) ==
    [i \in 1..HashLen |-> (n \div Pow(HashBase, HashLen - i)) % HashBase]

AddrCode(a) ==
    CASE a = "A" -> 1 [] a = "B" -> 2 [] a = "" -> 3 [] OTHER -> 0

TxCode(t) == AddrCode(t.fromAddress) * 5 + AddrCode(t.toAddress) * 3 + t.amount

RECURSIVE PayloadCode(_)
PayloadCode(txs) ==
    IF txs = <<>> THEN 1
    ELSE (PayloadCode(SubSeq(txs, 1, Len(txs) - 1)) * 7 + TxCode(txs[Len(txs)])) % HashSpace

\* digest of index + previousHash + timestamp + JSON.stringify(data) + nonce
calculateHash(b) ==
    NatToDigits((b.index * 11 + DigitsToNat(b.previousHash) * 13 + b.timestamp * 17
                 + PayloadCode(b.transactions) + b.quantumProof * 19
                 + b.nonce * 5) % HashSpace)

\* new QuantumBlock(index, previousHash, timestamp, data): nonce 0, first hash
QuantumBlock(index, previousHash, timestamp, transactions, quantumProof) ==
    LET b == [index |-> index, previousHash |-> previousHash, timestamp |-> timestamp,
              transactions |-> transactions, quantumProof |-> quantumProof,
              nonce |-> 0, hash |-> <<>>]
    IN [b EXCEPT !.hash = calculateHash(b)]

\* Array(d + 1).join("0")
Target(d) == [i \in 1..d |-> 0]

\* the loop body with the two statements swapped: the hash is recomputed
\* before the nonce is incremented
mineStepHashFirst(b) ==
    LET b1 == [b EXCEPT !.hash = calculateHash(b)]
    IN [b1 EXCEPT !.nonce = @ + 1]

\* one pass of the loop body of mineBlock: nonce++, then recompute the hash
mineStep(b) ==
    LET b1 == [b EXCEPT !.nonce = @ + 1]
    IN [b1 EXCEPT !.hash = calculateHash(b1)]

RECURSIVE mineBlock(_, _)
mineBlock(b, d) ==
    IF SubSeq(b.hash, 1, d) # Target(d) THEN mineBlock(mineStep(b), d) ELSE b

----------------------------------------------------------------------------
(* Ledger: QuantumBlockchain *)

\* createGenesisBlock: index 0, previousHash "0", fixed timestamp, no
\* transactions, a random quantum signature in the payload
createGenesisBlock(sig) == QuantumBlock(0, <<0>>, 0, <<>>, sig)

getLatestBlock == chain[Len(chain)]

\* isTransactionValid(obj): "true" or "throws"
isTransactionValid(obj) ==
    IF Field(obj, "fromAddress") = Null THEN "true"
    ELSE IF ~Truthy(Field(obj, "signature")) THEN "throws"
    ELSE "true"

\* the outcome of addTransaction(tx): "ok" or the error it throws
addTransactionOutcome(tx) ==
    IF ~Truthy(tx.fromAddress) \/ ~Truthy(tx.toAddress)
    THEN "Transaction must include from and to address"
    ELSE IF isTransactionValid(tx) = "throws" THEN "No signature in this transaction"
    ELSE "ok"

\* the inner loop of getBalance without the debit branch
RECURSIVE BalanceOfTxsCreditsOnly(_, _)
BalanceOfTxsCreditsOnly(txs, address) ==
    IF txs = <<>> THEN 0
    ELSE LET t == txs[Len(txs)]
         IN BalanceOfTxsCreditsOnly(SubSeq(txs, 1, Len(txs) - 1), address)
            + (IF t.toAddress = address THEN t.amount ELSE 0)

RECURSIVE BalanceOfTxs(_, _)
BalanceOfTxs(txs, address) ==
    IF txs = <<>> THEN 0
    ELSE LET t == txs[Len(txs)]
         IN BalanceOfTxs(SubSeq(txs, 1, Len(txs) - 1), address)
            - (IF t.fromAddress = address THEN t.amount ELSE 0)
            + (IF t.toAddress = address THEN t.amount ELSE 0)

\* the loop of getBalance over the whole chain
RECURSIVE computeBalance(_, _)
computeBalance(c, address) ==
    IF c = <<>> THEN 0
    ELSE computeBalance(SubSeq(c, 1, Len(c) - 1), address)
         + BalanceOfTxs(c[Len(c)].transactions, address)

\* what getBalance(address) returns for a given cache and chain
getBalanceIn(cache, c, address) ==
    IF address \in DOMAIN cache THEN cache[address]
    ELSE computeBalance(c, address)

\* what getBalance(address) returns in the current state
getBalance(address) == getBalanceIn(balanceCache, chain, address)

Delete(cache, key) == [a \in (DOMAIN cache) \ {key} |-> cache[a]]

RECURSIVE invalidateBalanceCache(_, _)
invalidateBalanceCache(cache, transactions) ==
    IF transactions = <<>> THEN cache
    ELSE LET t == Head(transactions)
             c1 == IF Truthy(t.fromAddress) THEN Delete(cache, t.fromAddress) ELSE cache
             c2 == IF Truthy(t.toAddress) THEN Delete(c1, t.toAddress) ELSE c1
         IN invalidateBalanceCache(c2, Tail(transactions))

\* { ...trans, blockIndex, blockHash }
Annotated(t, block) ==
    [fromAddress |-> t.fromAddress, toAddress |-> t.toAddress, amount |-> t.amount,
     signature |-> t.signature, id |-> t.id,
     blockIndex |-> block.index, blockHash |-> block.hash]

IndexPush(index, key, entry) ==
    IF key \in DOMAIN index THEN [index EXCEPT ![key] = Append(@, entry)]
    ELSE [a \in (DOMAIN index) \cup {key} |-> IF a = key THEN <<entry>> ELSE index[a]]

RECURSIVE updateTransactionIndex(_, _, _)
updateTransactionIndex(index, transactions, block) ==
    IF transactions = <<>> THEN index
    ELSE LET t == Head(transactions)
             i1 == IF Truthy(t.fromAddress)
                   THEN IndexPush(index, t.fromAddress, Annotated(t, block)) ELSE index
             i2 == IF Truthy(t.toAddress)
                   THEN IndexPush(i1, t.toAddress, Annotated(t, block)) ELSE i1
         IN updateTransactionIndex(i2, Tail(transactions), block)

\* the transactions of one block that touch the address, annotated
RECURSIVE scanBlockHistory(_, _, _)
scanBlockHistory(transactions, blk, address) ==
    IF transactions = <<>> THEN <<>>
    ELSE LET t == Head(transactions)
             rest == scanBlockHistory(Tail(transactions), blk, address)
         IN IF t.fromAddress = address \/ t.toAddress = address
            THEN <<Annotated(t, blk)>> \o rest
            ELSE rest

\* the full scan of getTransactionHistory: every block in chain order
RECURSIVE scanTransactionHistory(_, _)
scanTransactionHistory(c, address) ==
    IF c = <<>> THEN <<>>
    ELSE scanTransactionHistory(SubSeq(c, 1, Len(c) - 1), address)
         \o scanBlockHistory(c[Len(c)].transactions, c[Len(c)], address)

\* what getTransactionHistory(address) returns for a given index and chain
getTransactionHistoryIn(index, c, address) ==
    IF address \in DOMAIN index THEN index[address]
    ELSE scanTransactionHistory(c, address)

\* isChainValid(): "true", "false" or "throws", scanning blocks 1.. in order
RECURSIVE isChainValidFrom(_, _)
isChainValidFrom(c, i) ==
    IF i > Len(c) THEN "true"
    ELSE IF isTransactionValid(c[i]) = "throws" THEN "throws"
    ELSE IF c[i].hash # calculateHash(c[i]) THEN "false"
    ELSE IF c[i].previousHash # c[i - 1].hash THEN "false"
    ELSE isChainValidFrom(c, i + 1)

isChainValid == isChainValidFrom(chain, 2)

\* the object addTransaction pushes; id stands for the object's identity
PoolEntry(tx, id) ==
    [fromAddress |-> tx.fromAddress, toAddress |-> tx.toAddress,
     amount |-> tx.amount, signature |-> tx.signature, id |-> id]

\* a reward transaction that carries the difficulty instead of the reward
rewardTransactionWrongAmount(miningRewardAddress) ==
    [fromAddress |-> Null, toAddress |-> miningRewardAddress,
     amount |-> difficulty, signature |-> Undefined, id |-> 0]

\* the reward transaction built by minePendingTransactions
rewardTransaction(miningRewardAddress) ==
    [fromAddress |-> Null, toAddress |-> miningRewardAddress,
     amount |-> miningReward, signature |-> Undefined, id |-> 0]

\* a block linked to the first block of the chain instead of the latest
newBlockLinkedToFirst(pool, now, proof) ==
    mineBlock(QuantumBlock(getLatestBlock.index + 1, chain[1].hash,
                           now, pool, proof), difficulty)

\* the block minePendingTransactions builds and mines over the pool
newBlock(pool, now, proof) ==
    mineBlock(QuantumBlock(getLatestBlock.index + 1, getLatestBlock.hash,
                           now, pool, proof), difficulty)

\* the pending pool left as it was
keptPool == pendingTransactions

\* what minePendingTransactions leaves in the pending pool
clearedPool == <<>>

\* the outcome of the last call: which operation, and "ok", "throws" or the
\* value a predicate returned
Result(op, status) == [op |-> op, status |-> status]

----------------------------------------------------------------------------
(* Consensus: QuantumConsensus (validator registry) *)

(* Program constants *)
minimumStake == 1000
genesisStake == 10000
genesisReputation == 100
initialReputation == 50
\* slashingRate 0.1 = slashingRatePercent / 100
slashingRatePercent == 10
slashingReputationPenalty == 20
\* epochDuration, in milliseconds
epochDuration == 600000
\* rewardRate 0.05 = rewardRatePercent / 100
rewardRatePercent == 5
\* 1 / epochDurationInYears = (1000 * 60 * 60 * 24 * 365) / epochDuration
epochsPerYear == 52560
validationReputationGain == 1
validationReputationPenalty == 5
maxReputation == 100

(* Bounds: addStake is explored while the stake stays at most MaxStake, and
   registry calls are explored until MaxCalls of them have succeeded *)
MaxStake == 1100000
MaxCalls == 3
\* epoch checks are explored until MaxEpoch transitions have happened
MaxEpoch == 2

genesisValidator == "G"
ValidatorAddresses == {genesisValidator, "V1"}
RegisterStakes == {500, 1000, 1500}
StakeAmounts == {500, 1000}
\* the staker argument: omitted (null) or a delegator other than the validator
Stakers == {Null, "S"}

\* map.get(key) || 0
GetOr0(map, key) == IF key \in DOMAIN map THEN map[key] ELSE 0

\* map.set(key, value)
MapSet(map, key, value) ==
    [a \in (DOMAIN map) \cup {key} |-> IF a = key THEN value ELSE map[a]]

\* calculateVotingPower, times 100 (stake * (0.5 + reputation / 100) * 100)
calculateVotingPower(vals, stk, validatorAddress) ==
    IF validatorAddress \notin DOMAIN vals \/ ~vals[validatorAddress].isActive THEN 0
    ELSE LET stake == GetOr0(stk, validatorAddress)
             reputation == IF vals[validatorAddress].reputation = 0 THEN 50
                           ELSE vals[validatorAddress].reputation
         IN stake * (50 + reputation)

\* the registry as one value, with the outcome of the call that produced it
Registry == [status |-> "ok", validators |-> validators, stakes |-> stakes,
             votingPower |-> votingPower, order |-> validatorOrder]

Throw(R) == [R EXCEPT !.status = "throws"]

WithVotingPower(R, a) ==
    [R EXCEPT !.votingPower =
        MapSet(R.votingPower, a, calculateVotingPower(R.validators, R.stakes, a))]

\* initializeGenesisValidator
initializeGenesisValidator ==
    LET vals == MapSet(<<>>, genesisValidator,
                       [stake |-> genesisStake, isActive |-> TRUE,
                        reputation |-> genesisReputation, totalValidatedBlocks |-> 0,
                        joinedEpoch |-> 0])
        stk == MapSet(<<>>, genesisValidator, genesisStake)
    IN WithVotingPower([status |-> "ok", validators |-> vals, stakes |-> stk,
                        votingPower |-> <<>>, order |-> <<genesisValidator>>],
                       genesisValidator)

\* registerValidator without the minimum-stake check
registerValidatorNoMinimum(R, address, initialStake, epoch) ==
    IF address \in DOMAIN R.validators THEN Throw(R)
    ELSE WithVotingPower(
           [R EXCEPT !.validators =
                        MapSet(R.validators, address,
                               [stake |-> initialStake, isActive |-> TRUE,
                                reputation |-> initialReputation,
                                totalValidatedBlocks |-> 0, joinedEpoch |-> epoch]),
                     !.order = Append(@, address),
                     !.stakes = MapSet(R.stakes, address, initialStake)],
           address)

\* registerValidator(address, publicKey, initialStake)
registerValidator(R, address, initialStake, epoch) ==
    IF address \in DOMAIN R.validators THEN Throw(R)
    ELSE IF initialStake < minimumStake THEN Throw(R)
    ELSE WithVotingPower(
           [R EXCEPT !.validators =
                        MapSet(R.validators, address,
                               [stake |-> initialStake, isActive |-> TRUE,
                                reputation |-> initialReputation,
                                totalValidatedBlocks |-> 0, joinedEpoch |-> epoch]),
                     !.order = Append(@, address),
                     !.stakes = MapSet(R.stakes, address, initialStake)],
           address)

\* addStake(validatorAddress, additionalStake, staker = null)
addStake(R, validatorAddress, additionalStake, staker) ==
    IF validatorAddress \notin DOMAIN R.validators THEN Throw(R)
    ELSE LET newStake == GetOr0(R.stakes, validatorAddress) + additionalStake
             R1 == [R EXCEPT !.stakes = MapSet(R.stakes, validatorAddress, newStake)]
             R2 == IF staker = validatorAddress \/ staker = Null
                   THEN [R1 EXCEPT !.validators[validatorAddress].stake = newStake]
                   ELSE R1
         IN WithVotingPower(R2, validatorAddress)

\* removeStake with the write to the stakes map moved before the minimum
\* check (a failed call then leaves the new stake behind)
removeStakeWriteFirst(R, validatorAddress, stakeToRemove, staker) ==
    IF validatorAddress \notin DOMAIN R.validators THEN Throw(R)
    ELSE LET currentStake == GetOr0(R.stakes, validatorAddress)
             newStake == currentStake - stakeToRemove
             R1 == [R EXCEPT !.stakes = MapSet(R.stakes, validatorAddress, newStake)]
         IN IF stakeToRemove > currentStake THEN Throw(R)
            ELSE IF newStake < minimumStake /\ newStake > 0 THEN Throw(R1)
            ELSE LET R2 == IF staker = validatorAddress \/ staker = Null
                           THEN [R1 EXCEPT
                                   !.validators[validatorAddress].stake = newStake,
                                   !.validators[validatorAddress].isActive =
                                       IF newStake < minimumStake THEN FALSE ELSE @]
                           ELSE R1
                 IN WithVotingPower(R2, validatorAddress)

\* removeStake without the check of the remaining stake against the minimum
removeStakeAllowsRemainder(R, validatorAddress, stakeToRemove, staker) ==
    IF validatorAddress \notin DOMAIN R.validators THEN Throw(R)
    ELSE LET currentStake == GetOr0(R.stakes, validatorAddress)
             newStake == currentStake - stakeToRemove
         IN IF stakeToRemove > currentStake THEN Throw(R)
            ELSE LET R1 == [R EXCEPT !.stakes =
                                        MapSet(R.stakes, validatorAddress, newStake)]
                     R2 == IF staker = validatorAddress \/ staker = Null
                           THEN [R1 EXCEPT
                                   !.validators[validatorAddress].stake = newStake,
                                   !.validators[validatorAddress].isActive =
                                       IF newStake < minimumStake THEN FALSE ELSE @]
                           ELSE R1
                 IN WithVotingPower(R2, validatorAddress)

\* removeStake(validatorAddress, stakeToRemove, staker = null)
removeStake(R, validatorAddress, stakeToRemove, staker) ==
    IF validatorAddress \notin DOMAIN R.validators THEN Throw(R)
    ELSE LET currentStake == GetOr0(R.stakes, validatorAddress)
             newStake == currentStake - stakeToRemove
         IN IF stakeToRemove > currentStake THEN Throw(R)
            ELSE IF newStake < minimumStake /\ newStake > 0 THEN Throw(R)
            ELSE LET R1 == [R EXCEPT !.stakes =
                                        MapSet(R.stakes, validatorAddress, newStake)]
                     R2 == IF staker = validatorAddress \/ staker = Null
                           THEN [R1 EXCEPT
                                   !.validators[validatorAddress].stake = newStake,
                                   !.validators[validatorAddress].isActive =
                                       IF newStake < minimumStake THEN FALSE ELSE @]
                           ELSE R1
                 IN WithVotingPower(R2, validatorAddress)

\* currentStake * slashingRate; the model explores the stakes for which this
\* product is a whole number
slashingAmount(currentStake) == (currentStake * slashingRatePercent) \div 100

SlashIsExact(currentStake) == (currentStake * slashingRatePercent) % 100 = 0

Max(a, b) == IF a >= b THEN a ELSE b

\* slashValidator without the floor on the reputation
slashValidatorNoFloor(R, validatorAddress) ==
    IF validatorAddress \notin DOMAIN R.validators THEN Throw(R)
    ELSE LET R1 == removeStake(R, validatorAddress,
                               slashingAmount(GetOr0(R.stakes, validatorAddress)), Null)
         IN IF R1.status = "throws" THEN R1
            ELSE [R1 EXCEPT
                    !.validators[validatorAddress].reputation =
                        @ - slashingReputationPenalty,
                    !.validators[validatorAddress].isActive =
                        IF R1.stakes[validatorAddress] < minimumStake THEN FALSE ELSE @]

\* slashValidator(validatorAddress, reason)
slashValidator(R, validatorAddress) ==
    IF validatorAddress \notin DOMAIN R.validators THEN Throw(R)
    ELSE LET R1 == removeStake(R, validatorAddress,
                               slashingAmount(GetOr0(R.stakes, validatorAddress)), Null)
         IN IF R1.status = "throws" THEN R1
            ELSE [R1 EXCEPT
                    !.validators[validatorAddress].reputation =
                        Max(0, @ - slashingReputationPenalty),
                    !.validators[validatorAddress].isActive =
                        IF R1.stakes[validatorAddress] < minimumStake THEN FALSE ELSE @]

Min(a, b) == IF a <= b THEN a ELSE b

\* validateTransaction(transaction); the model's transactions carry no
\* quantumProof of their own
validateTransaction(transaction) ==
    IF ~Truthy(transaction.fromAddress) /\ ~Truthy(transaction.toAddress) THEN FALSE
    ELSE IF transaction.amount < 0 THEN FALSE
    ELSE TRUE

\* block.data?.quantumProof: the payload of the genesis block carries a
\* quantumSignature and no quantumProof, the payload of a mined block a proof
hasQuantumProof(blk) == blk.index # 0

\* performQuantumValidation(block, validator): an absent hash or previousHash
\* is the empty sequence; every block of the model has a timestamp
performQuantumValidation(blk) ==
    IF blk.hash = <<>> \/ blk.previousHash = <<>> THEN FALSE
    ELSE IF ~hasQuantumProof(blk) THEN FALSE
    ELSE \A j \in 1..Len(blk.transactions) : validateTransaction(blk.transactions[j])

\* validateBlock without the cap on the reputation
validateBlockNoCap(R, blk, validatorAddress) ==
    IF validatorAddress \notin DOMAIN R.validators
       \/ ~R.validators[validatorAddress].isActive
    THEN Throw(R)
    ELSE IF performQuantumValidation(blk)
    THEN [R EXCEPT !.validators[validatorAddress].totalValidatedBlocks = @ + 1,
                   !.validators[validatorAddress].reputation =
                       @ + validationReputationGain]
    ELSE Throw([R EXCEPT !.validators[validatorAddress].reputation =
                             Max(0, @ - validationReputationPenalty)])

\* validateBlock(block, validatorAddress)
validateBlock(R, blk, validatorAddress) ==
    IF validatorAddress \notin DOMAIN R.validators
       \/ ~R.validators[validatorAddress].isActive
    THEN Throw(R)
    ELSE IF performQuantumValidation(blk)
    THEN [R EXCEPT !.validators[validatorAddress].totalValidatedBlocks = @ + 1,
                   !.validators[validatorAddress].reputation =
                       Min(maxReputation, @ + validationReputationGain)]
    ELSE Throw([R EXCEPT !.validators[validatorAddress].reputation =
                             Max(0, @ - validationReputationPenalty)])

\* validateBlock after its await (lines 419-439): the validator object the
\* call holds is updated, whatever has happened to it in the meantime
resumeValidation(R, validatorAddress, isValid) ==
    IF isValid
    THEN [R EXCEPT !.validators[validatorAddress].totalValidatedBlocks = @ + 1,
                   !.validators[validatorAddress].reputation =
                       Min(maxReputation, @ + validationReputationGain)]
    ELSE Throw([R EXCEPT !.validators[validatorAddress].reputation =
                             Max(0, @ - validationReputationPenalty)])

\* the reward of a whole year paid at every epoch
stakingRewardPerYear(stake) == (stake * rewardRatePercent) \div 100

\* stake * rewardRate * epochDurationInYears; the model explores the stakes
\* for which this product is a whole number
stakingReward(stake) == (stake * rewardRatePercent) \div (100 * epochsPerYear)

RewardIsExact(stake) == (stake * rewardRatePercent) % (100 * epochsPerYear) = 0

\* the validators distributeStakingRewards does not skip
RewardEligible(R, a) ==
    R.validators[a].isActive /\ GetOr0(R.stakes, a) >= minimumStake

\* what a listener registered with once('stakeAdded', ...) does when the
\* event reaches it: one registry call, or nothing (no listener)
ListenerCall(op, address, amount) == [op |-> op, address |-> address, amount |-> amount]
NoCall == ListenerCall("none", Null, 0)

\* emit('stakeAdded', ...): the listener runs before emit returns
onStakeAdded(R, call, epoch) ==
    CASE call.op = "registerValidator" ->
            registerValidator(R, call.address, call.amount, epoch)
      [] call.op = "addStake" -> addStake(R, call.address, call.amount, Null)
      [] call.op = "removeStake" -> removeStake(R, call.address, call.amount, Null)
      [] OTHER -> R

\* distributeStakingRewards: the for-of loop over the validators Map itself,
\* from the entry at position cursor on; an entry the listener adds to the Map
\* is visited like the others. A reward that is not a whole number ends the
\* evaluation with status "inexact" (the model does not explore it), and an
\* exception of the listener leaves the loop.
RECURSIVE distributeStakingRewardsFrom(_, _, _, _)
distributeStakingRewardsFrom(R, cursor, call, epoch) ==
    IF cursor > Len(R.order) THEN R
    ELSE LET a == R.order[cursor]
         IN IF ~RewardEligible(R, a)
            THEN distributeStakingRewardsFrom(R, cursor + 1, call, epoch)
            ELSE IF ~RewardIsExact(GetOr0(R.stakes, a))
            THEN [R EXCEPT !.status = "inexact"]
            ELSE LET R1 == addStake(R, a, stakingReward(GetOr0(R.stakes, a)), Null)
                     R2 == onStakeAdded(R1, call, epoch)
                 IN IF R2.status = "throws" THEN R2
                    ELSE distributeStakingRewardsFrom(R2, cursor + 1, NoCall, epoch)

distributeStakingRewards(R, call, epoch) == distributeStakingRewardsFrom(R, 1, call, epoch)

----------------------------------------------------------------------------
(* Consensus: selectValidators *)

\* Math.min(activeValidators.length, 21)
maxSelected == 21
\* maxValidators >= activeValidators.length * 0.8, in tenths
topShareTenths == 8

\* Array.from(this.validators.values()).filter(...): the active validators
\* with at least the minimum stake, in the insertion order of the Map
activeValidators(R) ==
    SelectSeq(R.order, LAMBDA a : R.validators[a].isActive
                                  /\ GetOr0(R.stakes, a) >= minimumStake)

\* this.votingPower.get(address) || 0
powerOf(R, a) == GetOr0(R.votingPower, a)

\* the candidates left in the insertion order of the Map, unsorted
sortByInsertion(R, sorted, rest) == sorted \o rest

\* sort((a, b) => power(b) - power(a)): a stable sort, entries of equal power
\* keep their order
RECURSIVE sortByPower(_, _, _)
sortByPower(R, sorted, rest) ==
    IF rest = <<>> THEN sorted
    ELSE LET a == Head(rest)
             k == Cardinality({j \in 1..Len(sorted) : powerOf(R, sorted[j]) >= powerOf(R, a)})
         IN sortByPower(R, SubSeq(sorted, 1, k) \o <<a>> \o SubSeq(sorted, k + 1, Len(sorted)),
                        Tail(rest))

RECURSIVE totalPower(_, _)
totalPower(R, active) ==
    IF active = <<>> THEN 0 ELSE powerOf(R, Head(active)) + totalPower(R, Tail(active))

\* Math.random() * totalVotingPower, for the values 0 and 0.75 of
\* Math.random(), given in quarters
RandomQuarters == {0, 3}
randomValueOf(total, q) == (total * q) \div 4

\* the values Math.random() returns to one call of selectValidators: a pair
\* that repeats
RandomStreams == RandomQuarters \X RandomQuarters

SetOf(seq) == {seq[j] : j \in 1..Len(seq)}

\* the scan of one draw that takes an entry whether or not it was selected
\* before: the position of the first entry with randomValue <= cumulativePower
RECURSIVE scanPowersWithRepeats(_, _, _, _, _, _)
scanPowersWithRepeats(R, active, selectedSet, randomValue, j, cumulativePower) ==
    IF j > Len(active) THEN 0
    ELSE LET c == cumulativePower + powerOf(R, active[j])
         IN IF randomValue <= c THEN j
            ELSE scanPowersWithRepeats(R, active, selectedSet, randomValue, j + 1, c)

\* the scan of one draw (for (const vp of validatorPowers)): the position of
\* the first entry with randomValue <= cumulativePower that is not selected
\* yet, 0 if there is none
RECURSIVE scanPowers(_, _, _, _, _, _)
scanPowers(R, active, selectedSet, randomValue, j, cumulativePower) ==
    IF j > Len(active) THEN 0
    ELSE LET c == cumulativePower + powerOf(R, active[j])
         IN IF randomValue <= c /\ active[j] \notin selectedSet THEN j
            ELSE scanPowers(R, active, selectedSet, randomValue, j + 1, c)

\* the while loop of one pass of the for loop; L holds selectedValidators, the
\* attempts of this pass and the number of values drawn from Math.random()
RECURSIVE sampleWhile(_, _, _, _, _, _)
sampleWhile(R, active, totalVotingPower, maxValidators, stream, L) ==
    IF ~(Len(L.selected) < maxValidators /\ L.attempts < Len(active) * 2) THEN L
    ELSE LET randomValue == randomValueOf(totalVotingPower, stream[(L.drawn % 2) + 1])
             j == scanPowers(R, active, SetOf(L.selected), randomValue, 1, 0)
         IN sampleWhile(R, active, totalVotingPower, maxValidators, stream,
                        [selected |-> IF j = 0 THEN L.selected
                                      ELSE Append(L.selected, active[j]),
                         attempts |-> L.attempts + 1,
                         drawn |-> L.drawn + 1])

\* for (let i = 0; i < maxValidators && selectedValidators.length < maxValidators; i++)
RECURSIVE sampleFor(_, _, _, _, _, _, _)
sampleFor(R, active, totalVotingPower, maxValidators, stream, i, L) ==
    IF ~(i < maxValidators /\ Len(L.selected) < maxValidators) THEN L.selected
    ELSE sampleFor(R, active, totalVotingPower, maxValidators, stream, i + 1,
                   sampleWhile(R, active, totalVotingPower, maxValidators, stream,
                               [L EXCEPT !.attempts = 0]))

\* selectValidators(blockHeight): the outcome and the addresses of the
\* validators returned
selectValidators(R, stream) ==
    LET active == activeValidators(R)
        maxValidators == Min(Len(active), maxSelected)
    IN IF Len(active) = 0 THEN [status |-> "throws", value |-> <<>>]
       ELSE IF maxValidators * 10 >= Len(active) * topShareTenths
       THEN [status |-> "ok",
             value |-> SubSeq(sortByPower(R, <<>>, active), 1, maxValidators)]
       ELSE [status |-> "ok",
             value |-> sampleFor(R, active, totalPower(R, active), maxValidators, stream, 0,
                                 [selected |-> <<>>, attempts |-> 0, drawn |-> 0])]

----------------------------------------------------------------------------
(* Bitcoin bridge: BitcoinQuantumBridge *)

\* bridgeFee 0.001 = bridgeFeePerMille / 1000
bridgeFeePerMille == 1
bitcoinTxHashLength == 64

\* bridgeContract before initializeBridge (null in the code) and after it
undeployedBridge == [deployed |-> FALSE, totalLocked |-> 0, totalMinted |-> 0,
                     transactions |-> <<>>]
deployedBridge == [deployed |-> TRUE, totalLocked |-> 0, totalMinted |-> 0,
                   transactions |-> <<>>]

\* verifyBitcoinTransaction(txHash, expectedAmount); a hash is the sequence of
\* its characters
verifyBitcoinTransaction(txHash, expectedAmount) ==
    Len(txHash) = bitcoinTxHashLength /\ expectedAmount > 0

\* amount * (1 - this.bridgeFee); the model explores the amounts for which
\* this product is a whole number
mintAmountOf(amount) == (amount * (1000 - bridgeFeePerMille)) \div 1000

MintIsExact(amount) == (amount * (1000 - bridgeFeePerMille)) % 1000 = 0

\* the mint transaction lockBitcoinAndMint hands to addTransaction
mintTransaction(quantumRecipient, mintAmount) ==
    [fromAddress |-> Null, toAddress |-> quantumRecipient, amount |-> mintAmount,
     signature |-> Undefined]

\* the entry of lockedFunds and of the address index
lockData(bitcoinTxHash, amount, quantumRecipient) ==
    [bitcoinTxHash |-> bitcoinTxHash, amount |-> amount,
     mintAmount |-> mintAmountOf(amount), quantumRecipient |-> quantumRecipient,
     status |-> "locked"]

----------------------------------------------------------------------------
(* DeFi: QuantumDeFiProtocol (liquidity pools) *)

\* protocolFee 0.003 = protocolFeePerMille / 1000
protocolFeePerMille == 3

\* Math.sqrt(initialAmountA * initialAmountB); the model explores the pairs
\* whose product is a square
HasSqrt(a, b) == \E r \in Min(a, b)..Max(a, b) : r * r = a * b
Sqrt(a, b) == CHOOSE r \in Min(a, b)..Max(a, b) : r * r = a * b

\* the pool id: a digest of tokenA + tokenB + Date.now()
PoolId(tokenA, tokenB, now) == <<tokenA, tokenB, now>>

\* the outcome of a DeFi call and the pools it leaves behind
PoolsResult(status, pools) == [status |-> status, pools |-> pools]

\* createLiquidityPool(tokenA, tokenB, initialAmountA, initialAmountB, creator)
createLiquidityPool(pools, tokenA, tokenB, initialAmountA, initialAmountB, creator, now) ==
    PoolsResult("ok",
        MapSet(pools, PoolId(tokenA, tokenB, now),
               [tokenA |-> tokenA, tokenB |-> tokenB,
                reserveA |-> initialAmountA, reserveB |-> initialAmountB,
                totalLiquidity |-> Sqrt(initialAmountA, initialAmountB),
                lpTokens |-> MapSet(<<>>, creator,
                                    Sqrt(initialAmountA, initialAmountB))]))

\* amountIn * (1 - this.protocolFee)
amountInWithFeeOf(amountIn) == (amountIn * (1000 - protocolFeePerMille)) \div 1000

\* a / b for the whole-number quotients the model explores
Quotient(a, b) == IF b > 0 THEN a \div b ELSE (0 - a) \div (0 - b)
Divides(b, a) == b # 0 /\ a % (IF b > 0 THEN b ELSE 0 - b) = 0

\* the swaps whose amounts are whole numbers: the fee of thousandths of
\* amountIn, and the constant-product quotient
SwapIsExact(reserveIn, reserveOut, amountIn) ==
    /\ (amountIn * (1000 - protocolFeePerMille)) % 1000 = 0
    /\ Divides(reserveIn + amountInWithFeeOf(amountIn),
               amountInWithFeeOf(amountIn) * reserveOut)

\* swap(poolId, tokenIn, amountIn, minAmountOut, trader)
swap(pools, poolId, tokenIn, amountIn, minAmountOut) ==
    IF poolId \notin DOMAIN pools THEN PoolsResult("Pool not found", pools)
    ELSE LET pool == pools[poolId]
             reserveIn == IF tokenIn = pool.tokenA THEN pool.reserveA ELSE pool.reserveB
             reserveOut == IF tokenIn = pool.tokenA THEN pool.reserveB ELSE pool.reserveA
             amountInWithFee == amountInWithFeeOf(amountIn)
             amountOut == Quotient(amountInWithFee * reserveOut,
                                   reserveIn + amountInWithFee)
         IN IF tokenIn # pool.tokenA /\ tokenIn # pool.tokenB
            THEN PoolsResult("Invalid token", pools)
            ELSE IF amountOut < minAmountOut
            THEN PoolsResult("Insufficient output amount", pools)
            ELSE IF tokenIn = pool.tokenA
            THEN PoolsResult("ok", [pools EXCEPT ![poolId].reserveA = @ + amountIn,
                                                 ![poolId].reserveB = @ - amountOut])
            ELSE PoolsResult("ok", [pools EXCEPT ![poolId].reserveB = @ + amountIn,
                                                 ![poolId].reserveA = @ - amountOut])

----------------------------------------------------------------------------
(* Standalone ledger: QuantumBlockchain of standalone/quantum-core.js *)

genesisAddress == "bc1q"
genesisAllocation == 10000

\* the ledger as the constructor leaves it: initialize() has not pushed the
\* genesis block yet. nextId numbers the transaction objects and duringMining holds the
\* numbers of those accepted while a minePendingTransactions call was waiting
constructedLedger ==
    [chain |-> <<>>, pendingTransactions |-> <<>>, balances |-> <<>>, totalSupply |-> 0,
     initializing |-> TRUE, nextId |-> 1, duringMining |-> {}]

\* new QuantumBlock(index, previousHash, timestamp, data): nonce 0 and no hash
\* yet (hash null is the empty sequence)
standaloneBlock(index, previousHash, timestamp, transactions, quantumProof) ==
    [index |-> index, previousHash |-> previousHash, timestamp |-> timestamp,
     transactions |-> transactions, quantumProof |-> quantumProof,
     nonce |-> 0, hash |-> <<>>]

\* mineBlock of the standalone block: the loop runs at least once, because the
\* hash is null at first
standaloneMineBlock(b, d) == mineBlock(mineStep(b), d)

\* createGenesisBlock of the standalone ledger: hashed, not mined
standaloneGenesisBlock ==
    [standaloneBlock(0, <<0>>, 0, <<>>, 0) EXCEPT
        !.hash = calculateHash(standaloneBlock(0, <<0>>, 0, <<>>, 0))]

\* initialize(): the genesis block and the genesis allocation
initialize(L) ==
    [L EXCEPT !.chain = Append(@, standaloneGenesisBlock),
              !.balances = MapSet(@, genesisAddress, genesisAllocation),
              !.totalSupply = genesisAllocation,
              !.initializing = FALSE]

\* getBalance(address): this.balances.get(address) || 0
standaloneBalance(balances, address) == GetOr0(balances, address)

\* QuantumTransaction.isValid()
transactionIsValid(tx) ==
    tx.fromAddress = Null \/ tx.signature # Null

\* addTransaction(transaction): "ok" or the reason of the throw
standaloneAddOutcome(L, tx) ==
    IF ~Truthy(tx.fromAddress) \/ ~Truthy(tx.toAddress) THEN "missing address"
    ELSE IF standaloneBalance(L.balances, tx.fromAddress) < tx.amount
    THEN "insufficient balance"
    ELSE IF ~transactionIsValid(tx) THEN "invalid"
    ELSE "ok"

\* updateBalances(transactions)
RECURSIVE updateBalances(_, _)
updateBalances(balances, transactions) ==
    IF transactions = <<>> THEN balances
    ELSE LET t == Head(transactions)
             b1 == IF Truthy(t.fromAddress)
                   THEN MapSet(balances, t.fromAddress,
                               standaloneBalance(balances, t.fromAddress) - t.amount)
                   ELSE balances
             b2 == IF Truthy(t.toAddress)
                   THEN MapSet(b1, t.toAddress,
                               standaloneBalance(b1, t.toAddress) + t.amount)
                   ELSE b1
         IN updateBalances(b2, Tail(transactions))

\* isChainValid() of the standalone ledger
standaloneIsChainValid(c) ==
    \A i \in 2..Len(c) :
       /\ c[i].hash = calculateHash(c[i])
       /\ c[i].previousHash = c[i - 1].hash

----------------------------------------------------------------------------
(* Initial state and actions *)

Init ==
    /\ \E sig \in Proofs : chain = <<createGenesisBlock(sig)>>
    /\ pendingTransactions = <<>>
    /\ balanceCache = <<>>
    /\ transactionIndex = <<>>
    /\ nextTxId = 1
    /\ last = Result("constructor", "ok")
    /\ sealPc = "idle"
    /\ candidate = chain[1]
    /\ poolAtCall = <<>>
    /\ validators = initializeGenesisValidator.validators
    /\ validatorOrder = initializeGenesisValidator.order
    /\ stakes = initializeGenesisValidator.stakes
    /\ votingPower = initializeGenesisValidator.votingPower
    /\ currentEpoch = 0
    /\ registryCalls = 0
    /\ clock = 0
    /\ lastEpochTime = clock
    /\ selected = <<>>
    /\ bridgeContract = undeployedBridge
    /\ lockedFunds = <<>>
    /\ transfersByAddress = <<>>
    /\ liquidityPools = <<>>
    /\ validating = <<>>
    /\ standalone = constructedLedger
    /\ mining = <<>>

\* addTransaction(transaction)
AddTransaction(tx) ==
    /\ sealPc = "idle"
    /\ nextTxId <= MaxTx
    /\ IF addTransactionOutcome(tx) = "ok"
       THEN /\ pendingTransactions' =
                 Append(pendingTransactions, PoolEntry(tx, nextTxId))
            /\ nextTxId' = nextTxId + 1
            /\ last' = Result("addTransaction", "ok")
       ELSE /\ UNCHANGED <<pendingTransactions, nextTxId>>
            /\ last' = Result("addTransaction", "throws")
    /\ UNCHANGED <<chain, balanceCache, transactionIndex>>
    /\ UNCHANGED sealVars
    /\ UNCHANGED consensusVars
    /\ UNCHANGED serviceVars

\* getBalance(address)
GetBalance(address) ==
    /\ sealPc = "idle"
    /\ last' = Result("getBalance", "ok")
    /\ balanceCache' =
         IF address \in DOMAIN balanceCache THEN balanceCache
         ELSE MapSet(balanceCache, address, computeBalance(chain, address))
    /\ UNCHANGED <<chain, pendingTransactions, transactionIndex, nextTxId>>
    /\ UNCHANGED sealVars
    /\ UNCHANGED consensusVars
    /\ UNCHANGED serviceVars

\* getTransactionHistory(address)
GetTransactionHistory(address) ==
    /\ sealPc = "idle"
    /\ last' = Result("getTransactionHistory", "ok")
    /\ transactionIndex' =
         IF address \in DOMAIN transactionIndex THEN transactionIndex
         ELSE IF scanTransactionHistory(chain, address) # <<>>
              THEN MapSet(transactionIndex, address, scanTransactionHistory(chain, address))
              ELSE transactionIndex
    /\ UNCHANGED <<chain, pendingTransactions, balanceCache, nextTxId>>
    /\ UNCHANGED sealVars
    /\ UNCHANGED consensusVars
    /\ UNCHANGED serviceVars

\* minePendingTransactions(miningRewardAddress)
MinePendingTransactions(miningRewardAddress, now, proof) ==
    /\ sealPc = "idle"
    /\ Len(chain) < MaxChain
    /\ LET pool == Append(pendingTransactions, rewardTransaction(miningRewardAddress))
           block == newBlock(pool, now, proof)
       IN /\ chain' = Append(chain, block)
          /\ balanceCache' = invalidateBalanceCache(balanceCache, pool)
          /\ transactionIndex' = updateTransactionIndex(transactionIndex, pool, block)
          /\ pendingTransactions' = clearedPool
          /\ candidate' = block
    /\ poolAtCall' = pendingTransactions
    /\ sealPc' = "idle"
    /\ last' = Result("minePendingTransactions", "ok")
    /\ UNCHANGED nextTxId
    /\ UNCHANGED consensusVars
    /\ UNCHANGED serviceVars

\* isChainValid()
IsChainValid ==
    /\ sealPc = "idle"
    /\ last' = Result("isChainValid", isChainValid)
    /\ UNCHANGED ledgerVars
    /\ UNCHANGED sealVars
    /\ UNCHANGED consensusVars
    /\ UNCHANGED serviceVars

\* minePendingTransactions, statement by statement. JavaScript runs a call to
\* completion: no other operation starts while sealPc is not "idle".

\* lines 477-494: the reward transaction is pushed to the pool, the block built
SealBegin(miningRewardAddress, now, proof) ==
    /\ sealPc = "idle"
    /\ Len(chain) < MaxChain
    /\ poolAtCall' = pendingTransactions
    /\ pendingTransactions' =
         Append(pendingTransactions, rewardTransaction(miningRewardAddress))
    /\ candidate' = QuantumBlock(getLatestBlock.index + 1, getLatestBlock.hash, now,
                                 pendingTransactions', proof)
    /\ sealPc' = "mining"
    /\ UNCHANGED <<chain, balanceCache, transactionIndex, nextTxId, last>>
    /\ UNCHANGED consensusVars
    /\ UNCHANGED serviceVars

\* one pass of the loop of mineBlock
SealSearch ==
    /\ sealPc = "mining"
    /\ SubSeq(candidate.hash, 1, difficulty) # Target(difficulty)
    /\ candidate' = mineStep(candidate)
    /\ UNCHANGED <<sealPc, poolAtCall, last>>
    /\ UNCHANGED ledgerVars
    /\ UNCHANGED consensusVars
    /\ UNCHANGED serviceVars

\* the loop of mineBlock exits; this.chain.push(block)
SealAppend ==
    /\ sealPc = "mining"
    /\ SubSeq(candidate.hash, 1, difficulty) = Target(difficulty)
    /\ chain' = Append(chain, candidate)
    /\ sealPc' = "appended"
    /\ UNCHANGED <<pendingTransactions, balanceCache, transactionIndex, nextTxId, last,
                   candidate, poolAtCall>>
    /\ UNCHANGED consensusVars
    /\ UNCHANGED serviceVars

\* this.invalidateBalanceCache(this.pendingTransactions)
SealInvalidate ==
    /\ sealPc = "appended"
    /\ balanceCache' = invalidateBalanceCache(balanceCache, pendingTransactions)
    /\ sealPc' = "invalidated"
    /\ UNCHANGED <<chain, pendingTransactions, transactionIndex, nextTxId, last,
                   candidate, poolAtCall>>
    /\ UNCHANGED consensusVars
    /\ UNCHANGED serviceVars

\* this.updateTransactionIndex(this.pendingTransactions, block)
SealIndex ==
    /\ sealPc = "invalidated"
    /\ transactionIndex' =
         updateTransactionIndex(transactionIndex, pendingTransactions, candidate)
    /\ sealPc' = "indexed"
    /\ UNCHANGED <<chain, pendingTransactions, balanceCache, nextTxId, last,
                   candidate, poolAtCall>>
    /\ UNCHANGED consensusVars
    /\ UNCHANGED serviceVars

\* this.pendingTransactions = []
SealClear ==
    /\ sealPc = "indexed"
    /\ pendingTransactions' = clearedPool
    /\ sealPc' = "emit"
    /\ UNCHANGED <<chain, balanceCache, transactionIndex, nextTxId, last,
                   candidate, poolAtCall>>
    /\ UNCHANGED consensusVars
    /\ UNCHANGED serviceVars

\* this.emit('blockMined', block): the listeners run, then the call returns
EmitBlockMined ==
    /\ sealPc = "emit"
    /\ sealPc' = "idle"
    /\ last' = Result("minePendingTransactions", "ok")
    /\ UNCHANGED <<candidate, poolAtCall>>
    /\ UNCHANGED ledgerVars
    /\ UNCHANGED consensusVars
    /\ UNCHANGED serviceVars

\* a consensus call leaves the registry R behind
Becomes(op, R) ==
    /\ registryCalls < MaxCalls
    /\ registryCalls' = IF R.status = "ok" THEN registryCalls + 1 ELSE registryCalls
    /\ validators' = R.validators
    /\ validatorOrder' = R.order
    /\ stakes' = R.stakes
    /\ votingPower' = R.votingPower
    /\ last' = Result(op, R.status)
    /\ UNCHANGED <<currentEpoch, clock, lastEpochTime, selected>>
    /\ UNCHANGED ledgerVars
    /\ UNCHANGED sealVars
    /\ UNCHANGED serviceVars

RegisterValidator(address, initialStake) ==
    Becomes("registerValidator", registerValidator(Registry, address, initialStake, currentEpoch))

AddStake(validatorAddress, additionalStake, staker) ==
    /\ GetOr0(stakes, validatorAddress) + additionalStake <= MaxStake
    /\ Becomes("addStake", addStake(Registry, validatorAddress, additionalStake, staker))

RemoveStake(validatorAddress, stakeToRemove, staker) ==
    Becomes("removeStake", removeStake(Registry, validatorAddress, stakeToRemove, staker))

SlashValidator(validatorAddress) ==
    /\ SlashIsExact(GetOr0(stakes, validatorAddress))
    /\ Becomes("slashValidator", slashValidator(Registry, validatorAddress))

\* blocks handed to validateBlock: the genesis block, a sealed block, and a
\* sealed block whose reward transaction names no address (both sealed at
\* time 2 with proof 1)
sealedSample == newBlock(<<rewardTransaction("A")>>, 2, 1)
malformedSample == newBlock(<<rewardTransaction("")>>, 2, 1)
ValidationBlocks == {chain[1], sealedSample, malformedSample}

\* validateBlock as a gate: a failed validation of the latest block takes the
\* block out of the chain
ValidateBlockGating(blk, validatorAddress) ==
    LET R == validateBlock(Registry, blk, validatorAddress)
    IN /\ registryCalls < MaxCalls
       /\ registryCalls' = IF R.validators = validators THEN registryCalls
                           ELSE registryCalls + 1
       /\ validators' = R.validators
       /\ stakes' = R.stakes
       /\ votingPower' = R.votingPower
       /\ last' = Result("validateBlock", R.status)
       /\ chain' = IF R.status = "throws" /\ Len(chain) > 1 /\ blk = chain[Len(chain)]
                   THEN SubSeq(chain, 1, Len(chain) - 1)
                   ELSE chain
       /\ UNCHANGED <<validatorOrder, currentEpoch, clock, lastEpochTime, selected>>
       /\ UNCHANGED <<pendingTransactions, balanceCache, transactionIndex, nextTxId>>
       /\ UNCHANGED sealVars
       /\ UNCHANGED serviceVars

\* validateBlock(block, validatorAddress); a failed validation changes the
\* reputation, so it counts against the budget of registry calls as well
ValidateBlock(blk, validatorAddress) ==
    LET R == validateBlock(Registry, blk, validatorAddress)
    IN /\ registryCalls < MaxCalls
       /\ registryCalls' = IF R.validators = validators THEN registryCalls
                           ELSE registryCalls + 1
       /\ validators' = R.validators
       /\ stakes' = R.stakes
       /\ votingPower' = R.votingPower
       /\ last' = Result("validateBlock", R.status)
       /\ UNCHANGED <<validatorOrder, currentEpoch, clock, lastEpochTime, selected>>
       /\ UNCHANGED ledgerVars
       /\ UNCHANGED sealVars
       /\ UNCHANGED serviceVars

\* how far the clock moves before a call, and between two reads of Date.now()
\* inside one call
ClockSteps == {epochDuration \div 2, epochDuration}
ClockDrifts == {0, 1}

\* checkEpochTransition() with a listener on 'stakeAdded' that makes the
\* given call: Date.now() is read at line 509 (currentTime) and read again by
\* transitionToNextEpoch at line 520 (currentTime + drift)
EpochCheck(currentTime, drift, call) ==
    /\ currentEpoch < MaxEpoch
    /\ currentTime >= clock
    /\ IF currentTime - lastEpochTime >= epochDuration
       THEN LET R == distributeStakingRewards(Registry, call, currentEpoch + 1)
            IN /\ R.status # "inexact"
               /\ currentEpoch' = currentEpoch + 1
               /\ lastEpochTime' = currentTime + drift
               /\ clock' = currentTime + drift
               /\ validators' = R.validators
               /\ validatorOrder' = R.order
               /\ stakes' = R.stakes
               /\ votingPower' = R.votingPower
               /\ last' = Result("checkEpochTransition", R.status)
       ELSE /\ clock' = currentTime
            /\ last' = Result("checkEpochTransition", "ok")
            /\ UNCHANGED <<currentEpoch, lastEpochTime, validators, validatorOrder,
                            stakes, votingPower>>
    /\ UNCHANGED <<registryCalls, selected>>
    /\ UNCHANGED ledgerVars
    /\ UNCHANGED sealVars
    /\ UNCHANGED serviceVars

\* checkEpochTransition() as the node runs it, with no listener on 'stakeAdded'
CheckEpochTransition(currentTime, drift) == EpochCheck(currentTime, drift, NoCall)

\* the calls a listener on 'stakeAdded' is explored with
ListenerCalls ==
    {NoCall,
     ListenerCall("registerValidator", "V1", 1051200),
     ListenerCall("addStake", "V1", 1051200),
     ListenerCall("removeStake", "V1", 1051200)}

LedgerNext ==
    \/ \E tx \in TxInputs : AddTransaction(tx)
    \/ \E a \in RewardAddresses : GetBalance(a)
    \/ \E a \in RewardAddresses, now \in Times, proof \in Proofs :
          MinePendingTransactions(a, now, proof)
    \/ \E a \in RewardAddresses : GetTransactionHistory(a)
    \/ IsChainValid

\* the ledger with minePendingTransactions taken statement by statement
SealNext ==
    \/ \E tx \in TxInputs : AddTransaction(tx)
    \/ \E a \in RewardAddresses : GetBalance(a)
    \/ \E a \in RewardAddresses : GetTransactionHistory(a)
    \/ \E a \in RewardAddresses, now \in Times, proof \in Proofs : SealBegin(a, now, proof)
    \/ SealSearch
    \/ SealAppend
    \/ SealInvalidate
    \/ SealIndex
    \/ SealClear
    \/ EmitBlockMined

RegistryNext ==
    \/ \E tx \in TxInputs : AddTransaction(tx)
    \/ \E a \in ValidatorAddresses, s \in RegisterStakes : RegisterValidator(a, s)
    \/ \E a \in ValidatorAddresses, s \in StakeAmounts, k \in Stakers : AddStake(a, s, k)
    \/ \E a \in ValidatorAddresses, s \in StakeAmounts, k \in Stakers : RemoveStake(a, s, k)
    \/ \E a \in ValidatorAddresses : SlashValidator(a)

\* calculateVotingPower(validatorAddress), its result stored as the stake
\* operations store it
CalculateVotingPower(validatorAddress) ==
    /\ votingPower' = MapSet(votingPower, validatorAddress,
                             calculateVotingPower(validators, stakes, validatorAddress))
    /\ last' = Result("calculateVotingPower", "ok")
    /\ UNCHANGED <<validators, validatorOrder, stakes, currentEpoch, registryCalls,
                    clock, lastEpochTime, selected>>
    /\ UNCHANGED ledgerVars
    /\ UNCHANGED sealVars
    /\ UNCHANGED serviceVars

\* the registries calculateVotingPower is applied to: the genesis validator
\* and a validator V1 of any reputation, active with a stake of at least the
\* minimum or inactive after a full withdrawal
Reputations == 0..maxReputation
VotingStakes == {minimumStake, genesisStake}
VotingAddresses == ValidatorAddresses \cup {"V2"}

VotingPowerInit ==
    /\ \E sig \in Proofs : chain = <<createGenesisBlock(sig)>>
    /\ pendingTransactions = <<>>
    /\ balanceCache = <<>>
    /\ transactionIndex = <<>>
    /\ nextTxId = 1
    /\ last = Result("constructor", "ok")
    /\ sealPc = "idle"
    /\ candidate = chain[1]
    /\ poolAtCall = <<>>
    /\ \E r \in Reputations, s \in VotingStakes \cup {0} :
          /\ validators =
                MapSet(initializeGenesisValidator.validators, "V1",
                       [stake |-> s, isActive |-> s >= minimumStake, reputation |-> r,
                        totalValidatedBlocks |-> 0, joinedEpoch |-> 0])
          /\ stakes = MapSet(initializeGenesisValidator.stakes, "V1", s)
    /\ validatorOrder = <<genesisValidator, "V1">>
    /\ votingPower = <<>>
    /\ currentEpoch = 0
    /\ registryCalls = 0
    /\ clock = 0
    /\ lastEpochTime = clock
    /\ selected = <<>>
    /\ bridgeContract = undeployedBridge
    /\ lockedFunds = <<>>
    /\ transfersByAddress = <<>>
    /\ liquidityPools = <<>>
    /\ validating = <<>>
    /\ standalone = constructedLedger
    /\ mining = <<>>

VotingPowerNext == \E a \in VotingAddresses : CalculateVotingPower(a)

\* calculateVotingPower applied to registries of every reputation
VotingPowerSpec == VotingPowerInit /\ [][VotingPowerNext]_vars

ReputationNext ==
    \/ RegisterValidator("V2", minimumStake)
    \/ \E a \in ValidatorAddresses : SlashValidator(a)
    \/ \E blk \in ValidationBlocks, a \in ValidatorAddresses : ValidateBlock(blk, a)

\* registration, validation and slashing applied to registries of every
\* reputation
ReputationSpec == VotingPowerInit /\ [][ReputationNext]_vars

(* Bounds: at most MaxInFlight validateBlock calls wait at their await *)
MaxInFlight == 1

\* validateBlock up to its await (lines 411-417): the check of the validator
\* and the synchronous body of performQuantumValidation
ValidateBegin(blk, validatorAddress) ==
    /\ Len(validating) < MaxInFlight
    /\ IF validatorAddress \notin DOMAIN validators
          \/ ~validators[validatorAddress].isActive
       THEN /\ last' = Result("validateBlock", "throws")
            /\ UNCHANGED validating
       ELSE /\ validating' = Append(validating,
                                    [validatorAddress |-> validatorAddress,
                                     isValid |-> performQuantumValidation(blk)])
            /\ last' = Result("validateBlock", "pending")
    /\ UNCHANGED consensusVars
    /\ UNCHANGED ledgerVars
    /\ UNCHANGED sealVars
    /\ UNCHANGED <<bridgeVars, defiVars, browserVars>>

\* the continuation of the i-th waiting validateBlock call
ValidateResume(i) ==
    LET call == validating[i]
        R == resumeValidation(Registry, call.validatorAddress, call.isValid)
    IN /\ i \in 1..Len(validating)
       /\ registryCalls < MaxCalls
       /\ registryCalls' = registryCalls + 1
       /\ validating' = SubSeq(validating, 1, i - 1)
                           \o SubSeq(validating, i + 1, Len(validating))
       /\ validators' = R.validators
       /\ last' = Result("validateBlock", R.status)
       /\ UNCHANGED <<validatorOrder, stakes, votingPower, currentEpoch, clock,
                       lastEpochTime, selected>>
       /\ UNCHANGED ledgerVars
       /\ UNCHANGED sealVars
       /\ UNCHANGED <<bridgeVars, defiVars, browserVars>>

\* selectValidators(blockHeight) with the values Math.random() returns
SelectValidators(stream) ==
    LET r == selectValidators(Registry, stream)
    IN /\ selected' = IF r.status = "ok" THEN r.value ELSE selected
       /\ last' = Result("selectValidators", r.status)
       /\ UNCHANGED <<validators, validatorOrder, stakes, votingPower, currentEpoch,
                       registryCalls, clock, lastEpochTime>>
       /\ UNCHANGED ledgerVars
       /\ UNCHANGED sealVars
       /\ UNCHANGED serviceVars

\* the registries selectValidators is applied to: the genesis validator and
\* the first n of the validators V1, V2, ..., registered in this order with
\* stakes of 1000, 1500 and 2000, after which the genesis validator or V1 may
\* have withdrawn its whole stake
MaxRegistered == 27
ValidatorName(i) == "V" \o ToString(i)
SelectionStake(i) == minimumStake + 500 * (i % 3)
Withdrawals == {Null, genesisValidator, ValidatorName(1)}

RECURSIVE registerFirst(_)
registerFirst(n) ==
    IF n = 0 THEN initializeGenesisValidator
    ELSE registerValidator(registerFirst(n - 1), ValidatorName(n), SelectionStake(n), 0)

SelectionRegistry(n, w) ==
    IF w \in DOMAIN registerFirst(n).validators
    THEN removeStake(registerFirst(n), w, registerFirst(n).stakes[w], Null)
    ELSE registerFirst(n)

SelectionInit ==
    /\ \E sig \in Proofs : chain = <<createGenesisBlock(sig)>>
    /\ pendingTransactions = <<>>
    /\ balanceCache = <<>>
    /\ transactionIndex = <<>>
    /\ nextTxId = 1
    /\ last = Result("constructor", "ok")
    /\ sealPc = "idle"
    /\ candidate = chain[1]
    /\ poolAtCall = <<>>
    /\ \E n \in 0..MaxRegistered, w \in Withdrawals :
          /\ validators = SelectionRegistry(n, w).validators
          /\ validatorOrder = SelectionRegistry(n, w).order
          /\ stakes = SelectionRegistry(n, w).stakes
          /\ votingPower = SelectionRegistry(n, w).votingPower
    /\ currentEpoch = 0
    /\ registryCalls = 0
    /\ clock = 0
    /\ lastEpochTime = clock
    /\ selected = <<>>
    /\ bridgeContract = undeployedBridge
    /\ lockedFunds = <<>>
    /\ transfersByAddress = <<>>
    /\ liquidityPools = <<>>
    /\ validating = <<>>
    /\ standalone = constructedLedger
    /\ mining = <<>>

SelectionNext == \E stream \in RandomStreams : SelectValidators(stream)

\* selectValidators applied to registries of up to MaxRegistered + 1 validators
SelectionSpec == SelectionInit /\ [][SelectionNext]_vars

\* the arguments the consensus operations are explored with
ConsensusRegisterStakes == {999, 1000, 1051200}
ConsensusAddAmounts == {1041200}
ConsensusRemoveAmounts == {1, 1000, 10000}

ConsensusNext ==
    \/ \E a \in ValidatorAddresses, s \in ConsensusRegisterStakes : RegisterValidator(a, s)
    \/ \E a \in ValidatorAddresses, s \in ConsensusAddAmounts, k \in Stakers :
          AddStake(a, s, k)
    \/ \E a \in ValidatorAddresses, s \in ConsensusRemoveAmounts, k \in Stakers :
          RemoveStake(a, s, k)
    \/ \E a \in ValidatorAddresses : SlashValidator(a)
    \/ \E blk \in ValidationBlocks, a \in ValidatorAddresses : ValidateBlock(blk, a)
    \/ \E step \in ClockSteps, drift \in ClockDrifts :
          CheckEpochTransition(clock + step, drift)

\* validateBlock calls that wait at their await while the stake of their
\* validator is removed or slashed
ValidationNext ==
    \/ RegisterValidator("V1", minimumStake)
    \/ \E a \in ValidatorAddresses, s \in ConsensusAddAmounts : AddStake(a, s, Null)
    \/ \E a \in ValidatorAddresses, s \in ConsensusRemoveAmounts : RemoveStake(a, s, Null)
    \/ \E a \in ValidatorAddresses : SlashValidator(a)
    \/ \E blk \in ValidationBlocks, a \in ValidatorAddresses : ValidateBegin(blk, a)
    \/ \E i \in 1..MaxInFlight : ValidateResume(i)

ValidationSpec == Init /\ [][ValidationNext]_vars

\* the registry with a listener attached to 'stakeAdded' during the epoch
\* transition
DistributionNext ==
    \/ \E a \in ValidatorAddresses, s \in ConsensusRegisterStakes : RegisterValidator(a, s)
    \/ \E a \in ValidatorAddresses, s \in ConsensusAddAmounts : AddStake(a, s, Null)
    \/ \E a \in ValidatorAddresses, s \in ConsensusRemoveAmounts : RemoveStake(a, s, Null)
    \/ \E step \in ClockSteps, drift \in ClockDrifts, call \in ListenerCalls :
          EpochCheck(clock + step, drift, call)

\* the arguments the operations of the node are explored with
NodeTxInputs == {[fromAddress |-> "A", toAddress |-> "B", amount |-> 150,
                  signature |-> "sig"]}
NodeAddresses == {"A"}
NodeValidators == {genesisValidator}
\* the node is explored until MaxNodeCalls consensus calls have been made
MaxNodeCalls == 2
ConsensusIdle == registryCalls + currentEpoch + Len(selected) < MaxNodeCalls

\* the ledger and the consensus engine of one node
NodeNext ==
    \/ \E tx \in NodeTxInputs : AddTransaction(tx)
    \/ \E a \in NodeAddresses : GetBalance(a)
    \/ \E a \in NodeAddresses : GetTransactionHistory(a)
    \/ \E a \in NodeAddresses, now \in Times, proof \in Proofs :
          MinePendingTransactions(a, now, proof)
    \/ IsChainValid
    \/ ConsensusIdle /\ \E s \in {minimumStake} : RegisterValidator("V1", s)
    \/ ConsensusIdle /\ \E a \in NodeValidators, s \in ConsensusAddAmounts : AddStake(a, s, Null)
    \/ ConsensusIdle /\ \E a \in NodeValidators, s \in {genesisStake} : RemoveStake(a, s, Null)
    \/ ConsensusIdle /\ \E a \in NodeValidators : SlashValidator(a)
    \/ ConsensusIdle /\ \E a \in ValidatorAddresses : ValidateBlock(getLatestBlock, a)
    \/ ConsensusIdle /\ \E stream \in {<<0, 0>>} : SelectValidators(stream)
    \/ ConsensusIdle /\ CheckEpochTransition(clock + epochDuration, 0)

\* stake amounts of either sign: addStake takes any number
SignedAmounts == {0 - 20000, 1041200}

\* the registry driven with stake amounts of either sign
StakeNext ==
    \/ \E a \in ValidatorAddresses, s \in ConsensusRegisterStakes : RegisterValidator(a, s)
    \/ \E a \in ValidatorAddresses, s \in SignedAmounts : AddStake(a, s, Null)
    \/ \E a \in ValidatorAddresses, s \in ConsensusRemoveAmounts : RemoveStake(a, s, Null)
    \/ \E a \in ValidatorAddresses : SlashValidator(a)
    \/ \E step \in ClockSteps : CheckEpochTransition(clock + step, 0)

(* Bounds: lockBitcoinAndMint is explored until MaxTransfers transfers are
   recorded *)
MaxTransfers == 2

\* initializeBridge()
InitializeBridge ==
    /\ bridgeContract' = deployedBridge
    /\ last' = Result("initializeBridge", "ok")
    /\ UNCHANGED <<lockedFunds, transfersByAddress>>
    /\ UNCHANGED defiVars
    /\ UNCHANGED inFlightVars
    /\ UNCHANGED browserVars
    /\ UNCHANGED ledgerVars
    /\ UNCHANGED sealVars
    /\ UNCHANGED consensusVars

\* lockBitcoinAndMint(bitcoinTxHash, amount, quantumRecipient): the transfer
\* is recorded and indexed before the mint transaction goes to addTransaction;
\* an exception of addTransaction, or of the update of a bridge contract that
\* is still null, rejects the call
LockBitcoinAndMint(bitcoinTxHash, amount, quantumRecipient) ==
    /\ sealPc = "idle"
    /\ nextTxId <= MaxTx
    /\ Len(lockedFunds) < MaxTransfers
    /\ MintIsExact(amount)
    /\ IF ~verifyBitcoinTransaction(bitcoinTxHash, amount)
       THEN /\ last' = Result("lockBitcoinAndMint", "throws")
            /\ UNCHANGED <<bridgeContract, lockedFunds, transfersByAddress,
                            pendingTransactions, nextTxId>>
       ELSE /\ lockedFunds' =
                  Append(lockedFunds, lockData(bitcoinTxHash, amount, quantumRecipient))
            /\ transfersByAddress' =
                  IndexPush(transfersByAddress, quantumRecipient,
                            lockData(bitcoinTxHash, amount, quantumRecipient))
            /\ IF addTransactionOutcome(
                     mintTransaction(quantumRecipient, mintAmountOf(amount))) # "ok"
               THEN /\ last' = Result("lockBitcoinAndMint", "throws")
                    /\ UNCHANGED <<bridgeContract, pendingTransactions, nextTxId>>
               ELSE /\ pendingTransactions' =
                          Append(pendingTransactions,
                                 PoolEntry(mintTransaction(quantumRecipient,
                                                           mintAmountOf(amount)),
                                           nextTxId))
                    /\ nextTxId' = nextTxId + 1
                    /\ IF ~bridgeContract.deployed
                       THEN /\ last' = Result("lockBitcoinAndMint", "throws")
                            /\ UNCHANGED bridgeContract
                       ELSE /\ bridgeContract' =
                                  [bridgeContract EXCEPT
                                     !.totalLocked = @ + amount,
                                     !.totalMinted = @ + mintAmountOf(amount),
                                     !.transactions =
                                         Append(@, lockData(bitcoinTxHash, amount,
                                                            quantumRecipient))]
                            /\ last' = Result("lockBitcoinAndMint", "ok")
    /\ UNCHANGED <<chain, balanceCache, transactionIndex>>
    /\ UNCHANGED defiVars
    /\ UNCHANGED inFlightVars
    /\ UNCHANGED browserVars
    /\ UNCHANGED sealVars
    /\ UNCHANGED consensusVars

\* the arguments lockBitcoinAndMint is explored with: hashes of 64 and of 63
\* characters, amounts in thousandths
BitcoinTxHashes == {[i \in 1..bitcoinTxHashLength |-> 0],
                    [i \in 1..(bitcoinTxHashLength - 1) |-> 0]}
BridgeAmounts == {0, 1000, 2000}

\* the bridge of the node and the ledger it submits to
BridgeNext ==
    \/ InitializeBridge
    \/ \E h \in BitcoinTxHashes, amount \in BridgeAmounts, r \in Addresses :
          LockBitcoinAndMint(h, amount, r)
    \/ \E tx \in NodeTxInputs : AddTransaction(tx)
    \/ \E a \in NodeAddresses : GetBalance(a)
    \/ \E a \in NodeAddresses, now \in Times, proof \in Proofs :
          MinePendingTransactions(a, now, proof)

(* Bounds: swaps are explored on pools whose reserves are at most MaxReserve *)
MaxReserve == 1000000

\* createLiquidityPool(tokenA, tokenB, initialAmountA, initialAmountB, creator)
CreateLiquidityPool(tokenA, tokenB, initialAmountA, initialAmountB, creator, now) ==
    /\ HasSqrt(initialAmountA, initialAmountB)
    /\ liquidityPools' = createLiquidityPool(liquidityPools, tokenA, tokenB, initialAmountA,
                                             initialAmountB, creator, now).pools
    /\ last' = Result("createLiquidityPool", "ok")
    /\ UNCHANGED bridgeVars
    /\ UNCHANGED inFlightVars
    /\ UNCHANGED browserVars
    /\ UNCHANGED ledgerVars
    /\ UNCHANGED sealVars
    /\ UNCHANGED consensusVars

\* swap(poolId, tokenIn, amountIn, minAmountOut, trader); the outcome is "ok"
\* or the message of the error thrown
Swap(poolId, tokenIn, amountIn, minAmountOut) ==
    /\ poolId \in DOMAIN liquidityPools =>
          /\ liquidityPools[poolId].reserveA <= MaxReserve
          /\ liquidityPools[poolId].reserveB <= MaxReserve
          /\ tokenIn = liquidityPools[poolId].tokenA =>
                SwapIsExact(liquidityPools[poolId].reserveA,
                            liquidityPools[poolId].reserveB, amountIn)
          /\ tokenIn = liquidityPools[poolId].tokenB =>
                SwapIsExact(liquidityPools[poolId].reserveB,
                            liquidityPools[poolId].reserveA, amountIn)
    /\ liquidityPools' = swap(liquidityPools, poolId, tokenIn, amountIn, minAmountOut).pools
    /\ last' = Result("swap",
                      swap(liquidityPools, poolId, tokenIn, amountIn, minAmountOut).status)
    /\ UNCHANGED bridgeVars
    /\ UNCHANGED inFlightVars
    /\ UNCHANGED browserVars
    /\ UNCHANGED ledgerVars
    /\ UNCHANGED sealVars
    /\ UNCHANGED consensusVars

\* the arguments the pool operations are explored with
Tokens == {"TOKENA", "TOKENB"}
InitialReserves == {<<1000, 9000>>, <<997, 3988>>, <<1000, 1000>>, <<2000, 2000>>}
PoolTimes == {1, 2}
PoolIds == {PoolId("TOKENA", "TOKENB", now) : now \in PoolTimes}
SwapTokens == Tokens \cup {"TOKENC"}
SwapAmounts == {0 - 1000, 0, 1000}
MinAmountsOut == {0 - 3000000, 0, 100}

DeFiNext ==
    \/ \E r \in InitialReserves, now \in PoolTimes :
          CreateLiquidityPool("TOKENA", "TOKENB", r[1], r[2], "creator", now)
    \/ \E p \in PoolIds, t \in SwapTokens, a \in SwapAmounts, m \in MinAmountsOut :
          Swap(p, t, a, m)

(* Bounds: at most MaxMiners minePendingTransactions calls of the standalone
   ledger wait at their await *)
MaxMiners == 2

\* the continuation of initialize() after createGenesisBlock has resolved
Initialize ==
    /\ standalone.initializing
    /\ standalone' = initialize(standalone)
    /\ last' = Result("initialize", "ok")
    /\ UNCHANGED mining
    /\ UNCHANGED ledgerVars
    /\ UNCHANGED sealVars
    /\ UNCHANGED consensusVars
    /\ UNCHANGED <<bridgeVars, defiVars, inFlightVars>>

\* addTransaction(transaction) of the standalone ledger
StandaloneAddTransaction(tx) ==
    /\ standalone.nextId <= MaxTx + MaxChain
    /\ IF standaloneAddOutcome(standalone, tx) = "ok"
       THEN /\ standalone' =
                  [standalone EXCEPT
                     !.pendingTransactions =
                         Append(@, [tx EXCEPT !.id = standalone.nextId]),
                     !.nextId = @ + 1,
                     !.duringMining = IF mining # <<>>
                                      THEN @ \cup {standalone.nextId} ELSE @]
            /\ last' = Result("addTransaction", "ok")
       ELSE /\ UNCHANGED standalone
            /\ last' = Result("addTransaction", "throws")
    /\ UNCHANGED mining
    /\ UNCHANGED ledgerVars
    /\ UNCHANGED sealVars
    /\ UNCHANGED consensusVars
    /\ UNCHANGED <<bridgeVars, defiVars, inFlightVars>>

\* minePendingTransactions(miningRewardAddress) up to its await (lines
\* 183-201): the reward transaction is pushed, the block is built over a copy
\* of the pool; before initialize() has finished getLatestBlock() is undefined
\* and the call rejects with the reward transaction left in the pool. The
\* nonce search touches nothing but the block, whose outcome is kept here.
MineBegin(miningRewardAddress, now, proof) ==
    LET reward == [fromAddress |-> Null, toAddress |-> miningRewardAddress,
                   amount |-> miningReward, signature |-> Null,
                   id |-> standalone.nextId]
        pool == Append(standalone.pendingTransactions, reward)
    IN /\ standalone.nextId <= MaxTx + MaxChain
       /\ Len(standalone.chain) + Len(mining) < MaxChain
       /\ Len(mining) < MaxMiners
       /\ standalone' = [standalone EXCEPT !.pendingTransactions = pool,
                                           !.nextId = @ + 1]
       /\ IF standalone.chain = <<>>
          THEN /\ UNCHANGED mining
               /\ last' = Result("minePendingTransactions", "throws")
          ELSE /\ mining' =
                     Append(mining,
                            standaloneMineBlock(
                               standaloneBlock(
                                  standalone.chain[Len(standalone.chain)].index + 1,
                                  standalone.chain[Len(standalone.chain)].hash,
                                  now, pool, proof),
                               difficulty))
               /\ last' = Result("minePendingTransactions", "pending")
       /\ UNCHANGED ledgerVars
       /\ UNCHANGED sealVars
       /\ UNCHANGED consensusVars
       /\ UNCHANGED <<bridgeVars, defiVars, inFlightVars>>

\* the continuation of the i-th waiting minePendingTransactions call (lines
\* 203-213): the block is pushed, the balances are updated with the pool as it
\* is now, the pool is replaced by an empty one
MineFinish(i) ==
    /\ i \in 1..Len(mining)
    /\ standalone' =
          [standalone EXCEPT
             !.chain = Append(@, mining[i]),
             !.balances = updateBalances(@, standalone.pendingTransactions),
             !.pendingTransactions = <<>>,
             !.totalSupply = @ + miningReward]
    /\ mining' = SubSeq(mining, 1, i - 1) \o SubSeq(mining, i + 1, Len(mining))
    /\ last' = Result("minePendingTransactions", "ok")
    /\ UNCHANGED ledgerVars
    /\ UNCHANGED sealVars
    /\ UNCHANGED consensusVars
    /\ UNCHANGED <<bridgeVars, defiVars, inFlightVars>>

\* the arguments the standalone ledger is explored with: a signed and an
\* unsigned transfer from the genesis address, and a transfer from an address
\* that holds nothing at first
StandaloneTxInputs ==
    {[fromAddress |-> genesisAddress, toAddress |-> "B", amount |-> 150,
      signature |-> "sig", id |-> 0],
     [fromAddress |-> genesisAddress, toAddress |-> "B", amount |-> 150,
      signature |-> Null, id |-> 0],
     [fromAddress |-> "B", toAddress |-> "A", amount |-> 150,
      signature |-> "sig", id |-> 0]}

StandaloneNext ==
    \/ Initialize
    \/ \E tx \in StandaloneTxInputs : StandaloneAddTransaction(tx)
    \/ \E now \in Times, proof \in Proofs : MineBegin("A", now, proof)
    \/ \E i \in 1..MaxMiners : MineFinish(i)

\* the standalone ledger, its minePendingTransactions calls split at the await
StandaloneSpec == Init /\ [][StandaloneNext]_vars

\* the standalone ledger with one minePendingTransactions call at a time,
\* interleaved with addTransaction
SingleMinerNext ==
    \/ Initialize
    \/ \E tx \in StandaloneTxInputs : StandaloneAddTransaction(tx)
    \/ \E now \in Times, proof \in Proofs : mining = <<>> /\ MineBegin("A", now, proof)
    \/ MineFinish(1)

SingleMinerSpec == Init /\ [][SingleMinerNext]_vars

Next == LedgerNext

\* the ledger driven through its public operations
Spec == Init /\ [][Next]_vars

\* the ledger with the steps of a seal made visible
SealSpec == Init /\ [][SealNext]_vars

\* the consensus engine driven through its public operations
ConsensusSpec == Init /\ [][ConsensusNext]_vars

\* the node: ledger and consensus engine driven through their public operations
NodeSpec == Init /\ [][NodeNext]_vars

\* the validator registry driven with stake amounts of either sign
StakeSpec == Init /\ [][StakeNext]_vars

\* the Bitcoin bridge and the ledger of one node
BridgeSpec == Init /\ [][BridgeNext]_vars

\* the liquidity pools of the DeFi protocol driven through createLiquidityPool
\* and swap
DeFiSpec == Init /\ [][DeFiNext]_vars

\* the consensus engine with a listener on its 'stakeAdded' event
DistributionSpec == Init /\ [][DistributionNext]_vars

\* the validator registry, with transaction submission, driven through its
\* public operations
RegistrySpec == Init /\ [][RegistryNext]_vars

----------------------------------------------------------------------------
(* Properties *)

\* all sealed transactions, in chain order
RECURSIVE SealedTransactions(_)
SealedTransactions(c) ==
    IF c = <<>> THEN <<>>
    ELSE SealedTransactions(SubSeq(c, 1, Len(c) - 1)) \o c[Len(c)].transactions

RECURSIVE SumAmounts(_, _)
SumAmounts(txs, S) ==
    IF S = {} THEN 0
    ELSE LET i == CHOOSE j \in S : TRUE
         IN txs[i].amount + SumAmounts(txs, S \ {i})

\* received minus sent over the full sealed history
ReplayedBalance(c, a) ==
    LET txs == SealedTransactions(c)
    IN SumAmounts(txs, {i \in 1..Len(txs) : txs[i].toAddress = a})
       - SumAmounts(txs, {i \in 1..Len(txs) : txs[i].fromAddress = a})

\* how many times the accepted transaction id occurs in the pool and the chain
Occurrences(c, pool, id) ==
    Cardinality({i \in 1..Len(pool) : pool[i].id = id})
    + Cardinality({i \in 1..Len(SealedTransactions(c)) : SealedTransactions(c)[i].id = id})

\* C1: getBalance(A) returns received minus sent over the sealed history for
\* every address A, and every entry of balanceCache equals the replayed balance.
C1_CachedBalanceIsReplayedBalance ==
    /\ \A a \in RewardAddresses : getBalance(a) = ReplayedBalance(chain, a)
    /\ \A a \in DOMAIN balanceCache : balanceCache[a] = ReplayedBalance(chain, a)

\* C2: on an untampered ledger, after any sequence of seals, isChainValid()
\* returns true.
C2_IsChainValidReturnsTrue ==
    last.op = "isChainValid" => last.status = "true"

\* C3: the chain always holds the genesis block (index 0, previousHash "0"),
\* chain[i].index = i, and every later block's previousHash is the hash of the
\* block before it.
C3_ChainIsLinked ==
    /\ Len(chain) >= 1
    /\ chain[1].index = 0
    /\ chain[1].previousHash = <<0>>
    /\ \A i \in 1..Len(chain) : chain[i].index = i - 1
    /\ \A i \in 2..Len(chain) : chain[i].previousHash = chain[i - 1].hash

C3_Witness == Len(chain) = 3 /\ Len(chain[2].transactions) > 1

\* C4: every accepted transaction is in the pool or in exactly one block; a
\* seal moves the whole pool into the new block, empties the pool, and leaves
\* the earlier blocks as they were.
C4_AcceptedIsSealedExactlyOnce ==
    [][/\ \A id \in 1..(nextTxId' - 1) :
             Occurrences(chain', pendingTransactions', id) = 1
       /\ Len(chain') > Len(chain) =>
             /\ pendingTransactions' = <<>>
             /\ \A i \in 1..Len(pendingTransactions) :
                   \E j \in 1..Len(chain'[Len(chain')].transactions) :
                      chain'[Len(chain')].transactions[j] = pendingTransactions[i]
       /\ SubSeq(chain', 1, Len(chain)) = chain]_vars

C4_Witness ==
    /\ Len(chain) = 3
    /\ \E j \in 1..Len(chain[2].transactions) : chain[2].transactions[j].id >= 1
    /\ \E j \in 1..Len(chain[3].transactions) : chain[3].transactions[j].id >= 1

\* what the claim says addTransaction rejects
C5_Rejected(tx) ==
    \/ tx.toAddress \in {Null, Undefined}
    \/ tx.fromAddress \notin {Null, Undefined} /\ tx.signature \in {Null, Undefined, ""}

\* C5: addTransaction rejects exactly the transactions with no toAddress or
\* with a fromAddress and no signature; every other transaction, a minted one
\* (no fromAddress) included, is appended to the end of the pending pool.
C5_AddTransactionRejectsExactly ==
    [][\A tx \in TxInputs :
          AddTransaction(tx) =>
             /\ (last'.status = "throws") <=> C5_Rejected(tx)
             /\ ~C5_Rejected(tx) =>
                   /\ Len(pendingTransactions') = Len(pendingTransactions) + 1
                   /\ SubSeq(pendingTransactions', 1, Len(pendingTransactions))
                         = pendingTransactions
                   /\ pendingTransactions'[Len(pendingTransactions')].toAddress
                         = tx.toAddress]_vars

\* C6: a seal to r appends exactly one block: index = head index + 1,
\* previousHash = head hash, payload = the pool followed by one reward
\* transaction (no sender, recipient r, amount miningReward); the pool is left
\* empty; from a fresh ledger with an empty pool, chain length becomes 2 and
\* getBalance(r) = 100.
C6_SealAppendsOneBlock ==
    [][last'.op = "minePendingTransactions" =>
       \A r \in RewardAddresses, now \in Times, proof \in Proofs :
          MinePendingTransactions(r, now, proof) =>
             LET b == chain'[Len(chain')]
                 n == Len(pendingTransactions)
             IN /\ Len(chain') = Len(chain) + 1
                /\ SubSeq(chain', 1, Len(chain)) = chain
                /\ b.index = chain[Len(chain)].index + 1
                /\ b.previousHash = chain[Len(chain)].hash
                /\ Len(b.transactions) = n + 1
                /\ SubSeq(b.transactions, 1, n) = pendingTransactions
                /\ b.transactions[n + 1].fromAddress = Null
                /\ b.transactions[n + 1].toAddress = r
                /\ b.transactions[n + 1].amount = miningReward
                /\ pendingTransactions' = <<>>
                /\ (Len(chain) = 1 /\ pendingTransactions = <<>> /\ balanceCache = <<>>)
                      => /\ Len(chain') = 2
                         /\ getBalanceIn(balanceCache', chain', r) = 100]_vars

C6_Witness ==
    /\ Len(chain) = 3
    /\ Len(chain[2].transactions) = 1
    /\ getBalance(chain[2].transactions[1].toAddress) >= 100
    /\ Len(chain[3].transactions) = 3
    /\ pendingTransactions = <<>>

\* C7: when a seal returns, balanceCache has no entry for the sender or the
\* recipient of any transaction of the sealed block, the reward recipient
\* included, whatever value was passed as reward recipient.
C7_SealInvalidatesTouchedBalances ==
    [][Len(chain') > Len(chain) =>
          \A j \in 1..Len(chain'[Len(chain')].transactions) :
             LET t == chain'[Len(chain')].transactions[j]
             IN /\ t.fromAddress # Null => t.fromAddress \notin DOMAIN balanceCache'
                /\ t.toAddress \notin DOMAIN balanceCache']_vars

\* C8: a call of addTransaction, registerValidator, addStake, removeStake or
\* slashValidator that raises an error leaves the chain, the pool, the caches,
\* the validator records, the stakes, the voting powers and the epoch as they
\* were.
C8_RejectedCallChangesNothing ==
    [][(/\ last'.status = "throws"
        /\ last'.op \in {"addTransaction", "registerValidator", "addStake",
                         "removeStake", "slashValidator"})
          => UNCHANGED <<chain, pendingTransactions, balanceCache, transactionIndex,
                         validators, stakes, votingPower, currentEpoch>>]_vars

C8_Witness ==
    /\ last = Result("slashValidator", "throws")
    /\ "V1" \in DOMAIN validators
    /\ registryCalls >= 2
    /\ pendingTransactions # <<>>

\* C9: every non-genesis block's stored hash equals the hash recomputed from
\* its fields, and begins with `difficulty` zero characters.
C9_SealedHashIsRecomputedHash ==
    \A i \in 2..Len(chain) :
       /\ chain[i].hash = calculateHash(chain[i])
       /\ SubSeq(chain[i].hash, 1, difficulty) = Target(difficulty)

C9_Witness ==
    /\ Len(chain) = 3
    /\ \E i \in 2..Len(chain) : chain[i].nonce > 0

\* the read-only operations of the ledger
Readers ==
    \/ \E a \in RewardAddresses : GetBalance(a)
    \/ \E a \in RewardAddresses : GetTransactionHistory(a)
    \/ IsChainValid

\* C11: a seal can be cancelled while the nonce search is running: from every
\* state of the search some step ends the call with the chain and the pending
\* pool exactly as they were before the call (no reward transaction left in
\* the pool).
C11_SealCanBeCancelled ==
    sealPc = "mining" =>
        ENABLED (/\ SealNext
                 /\ sealPc' = "idle"
                 /\ chain' = chain
                 /\ pendingTransactions' = poolAtCall)

\* C12: no reader runs between the append of a block and its cache effects,
\* and when the blockMined listeners run, balanceCache holds no entry for an
\* address the block touches, the transaction index holds the block's
\* transactions, and the pending pool holds none of them.
C12_SealEffectsAreAtomic ==
    /\ sealPc \in {"appended", "invalidated", "indexed"} => ~ENABLED Readers
    /\ sealPc = "emit" =>
          \A j \in 1..Len(candidate.transactions) :
             LET t == candidate.transactions[j]
                 Indexed(a) ==
                    /\ a \in DOMAIN transactionIndex
                    /\ \E i \in 1..Len(transactionIndex[a]) :
                          transactionIndex[a][i] = Annotated(t, candidate)
             IN /\ chain[Len(chain)] = candidate
                /\ t.fromAddress # Null =>
                      t.fromAddress \notin DOMAIN balanceCache /\ Indexed(t.fromAddress)
                /\ t.toAddress \notin DOMAIN balanceCache
                /\ Indexed(t.toAddress)
                /\ \A i \in 1..Len(pendingTransactions) : pendingTransactions[i] # t

\* C13: for every address A, the cached getTransactionHistory(A) returns what
\* the full scan of the chain returns: each sealed transaction from or to A
\* exactly once, in chain order, annotated with its block's index and hash.
C13_IndexedHistoryIsScannedHistory ==
    \A a \in Addresses \cup RewardAddresses :
       getTransactionHistoryIn(transactionIndex, chain, a)
          = scanTransactionHistory(chain, a)

\* a transaction with sender, recipient and signature
Signed(tx) == Truthy(tx.fromAddress) /\ Truthy(tx.toAddress) /\ Truthy(tx.signature)

\* addTransaction accepts every signed transaction whose amount exceeds the
\* sender's balance
OverdraftIsAccepted ==
    \A tx \in TxInputs :
       (AddTransaction(tx) /\ Signed(tx) /\ tx.amount > getBalance(tx.fromAddress))
          => pendingTransactions' = Append(pendingTransactions, PoolEntry(tx, nextTxId))

\* C14 as stated: a signed transaction whose amount exceeds the sender's
\* current balance is accepted into the pending pool, and after it is sealed
\* getBalance(sender) is negative.
C14_OverdraftLeavesNegativeBalance ==
    [][/\ OverdraftIsAccepted
       /\ Len(chain') > Len(chain) =>
             \A i \in 1..Len(pendingTransactions) :
                LET t == pendingTransactions[i]
                IN t.amount > getBalance(t.fromAddress)
                      => getBalanceIn(balanceCache', chain', t.fromAddress) < 0]_vars

\* transaction i of the block is the only one of the block that touches its
\* sender, and it goes to another address
OnlyDebitOfSender(txs, i) ==
    /\ txs[i].toAddress # txs[i].fromAddress
    /\ \A j \in (1..Len(txs)) \ {i} :
          txs[j].fromAddress # txs[i].fromAddress /\ txs[j].toAddress # txs[i].fromAddress

\* C14 (amended): a signed transaction whose amount exceeds the sender's
\* current balance is accepted into the pending pool, and after it is sealed
\* in a block in which it is the only transaction touching the sender and goes
\* to another address, getBalance(sender) is negative.
C14_LoneOverdraftLeavesNegativeBalance ==
    [][/\ OverdraftIsAccepted
       /\ Len(chain') > Len(chain) =>
             \A i \in 1..Len(pendingTransactions) :
                LET t == pendingTransactions[i]
                IN (/\ t.amount > getBalance(t.fromAddress)
                    /\ OnlyDebitOfSender(chain'[Len(chain')].transactions, i))
                      => getBalanceIn(balanceCache', chain', t.fromAddress) < 0]_vars

C14_Witness ==
    /\ last = Result("minePendingTransactions", "ok")
    /\ Len(chain[Len(chain)].transactions) = 2
    /\ chain[Len(chain)].transactions[1].id >= 1
    /\ OnlyDebitOfSender(chain[Len(chain)].transactions, 1)
    /\ getBalance(chain[Len(chain)].transactions[1].fromAddress) < 0

\* C15: registerValidator(a, k, s) fails if a is already registered (the
\* genesis validator included) or s < minimumStake; otherwise it creates a
\* validator with stake s, reputation 50, active, zero validated blocks and
\* joinedEpoch = currentEpoch, and records the stake and voting power of a.
C15_RegisterValidatorContract ==
    [][last'.op = "registerValidator" =>
       \A a \in ValidatorAddresses, s \in ConsensusRegisterStakes :
          RegisterValidator(a, s) =>
             IF a \in DOMAIN validators \/ a = genesisValidator \/ s < 1000
             THEN /\ last'.status = "throws"
                  /\ UNCHANGED <<validators, stakes, votingPower>>
             ELSE /\ last'.status = "ok"
                  /\ validators' =
                        MapSet(validators, a,
                               [stake |-> s, isActive |-> TRUE, reputation |-> 50,
                                totalValidatedBlocks |-> 0, joinedEpoch |-> currentEpoch])
                  /\ stakes' = MapSet(stakes, a, s)
                  \* stake * (0.5 + 50 / 100), in hundredths
                  /\ votingPower' = MapSet(votingPower, a, s * 100)]_vars

C15_Witness ==
    /\ last = Result("registerValidator", "ok")
    /\ "V1" \in DOMAIN validators
    /\ validators["V1"].joinedEpoch = 1
    /\ validators["V1"].stake = 1000

\* C16: removeStake(v, x) fails if v is not registered, if x exceeds the
\* current stake, or if the remainder would be strictly between 0 and
\* minimumStake; otherwise the stake becomes stake - x, and a full withdrawal
\* to 0 succeeds and sets active = false (with stake 1000: removing 1 fails,
\* removing 1000 leaves stake 0 and active false).
C16_RemoveStakeContract ==
    [][last'.op = "removeStake" =>
       \A v \in ValidatorAddresses, x \in ConsensusRemoveAmounts :
          RemoveStake(v, x, Null) =>
             LET stake == GetOr0(stakes, v)
             IN IF \/ v \notin DOMAIN validators
                   \/ x > stake
                   \/ (stake - x > 0 /\ stake - x < 1000)
                THEN /\ last'.status = "throws"
                     /\ UNCHANGED <<validators, stakes, votingPower>>
                ELSE /\ last'.status = "ok"
                     /\ stakes'[v] = stake - x
                     /\ validators'[v].stake = stake - x
                     /\ stake - x = 0 => ~validators'[v].isActive
                     /\ stake - x >= 1000 => validators'[v].isActive = validators[v].isActive
                     /\ (stake = 1000 /\ x = 1) => FALSE
                     /\ (stake = 1000 /\ x = 1000) =>
                           stakes'[v] = 0 /\ ~validators'[v].isActive]_vars

C16_Witness ==
    /\ last = Result("removeStake", "ok")
    /\ "V1" \in DOMAIN validators
    /\ stakes["V1"] = 0
    /\ validators["V1"].stake = 0
    /\ ~validators["V1"].isActive

\* C17: in every reachable state of the registry, every validator whose stake
\* (its entry in the stakes map, or the stake of its record) is below
\* minimumStake has active = false.
C17_UnderMinimumIsInactive ==
    \A v \in DOMAIN validators :
       (GetOr0(stakes, v) < 1000 \/ validators[v].stake < 1000)
          => ~validators[v].isActive

\* C18: for every registered validator with stake s and reputation r,
\* slashValidator succeeds and leaves stake = s - s * slashingRate and
\* reputation = max(0, r - 20), and deactivates the validator if the new
\* stake is below minimumStake (stake 1000 becomes 900); it fails only for an
\* unregistered address.
C18_SlashValidatorContract ==
    [][last'.op = "slashValidator" =>
       \A v \in ValidatorAddresses :
          SlashValidator(v) =>
             IF v \notin DOMAIN validators
             THEN /\ last'.status = "throws"
                  /\ UNCHANGED <<validators, stakes, votingPower>>
             ELSE LET s == GetOr0(stakes, v)
                      r == validators[v].reputation
                  IN /\ last'.status = "ok"
                     /\ stakes'[v] = s - (s * 10) \div 100
                     /\ validators'[v].reputation = Max(0, r - 20)
                     /\ stakes'[v] < 1000 => ~validators'[v].isActive
                     /\ s = 1000 => stakes'[v] = 900]_vars

\* C19: calculateVotingPower(a) is 0 when a is unregistered or inactive, and
\* otherwise stake * (0.5 + reputation / 100) for every reputation in 0..100
\* (in hundredths: stake * (50 + reputation)), so the multiplier is 0.5 at
\* reputation 0, 1.5 at reputation 100 and non-decreasing in reputation.
C19_VotingPowerFormula ==
    \A a \in DOMAIN votingPower :
       votingPower[a] =
          IF a \notin DOMAIN validators THEN 0
          ELSE IF ~validators[a].isActive THEN 0
          ELSE stakes[a] * (50 + validators[a].reputation)

\* C20: an epoch check at time now advances the epoch iff
\* now - lastEpochTime >= epochDuration; when it advances, currentEpoch
\* increases by exactly 1 and lastEpochTime becomes now; otherwise
\* currentEpoch, lastEpochTime and every stake are unchanged; currentEpoch
\* never decreases.
C20_EpochCheckContract ==
    [][/\ currentEpoch' >= currentEpoch
       /\ last'.op = "checkEpochTransition" =>
             \A step \in ClockSteps, drift \in ClockDrifts :
                CheckEpochTransition(clock + step, drift) =>
                   LET now == clock + step
                   IN IF now - lastEpochTime >= 600000
                      THEN currentEpoch' = currentEpoch + 1 /\ lastEpochTime' = now
                      ELSE UNCHANGED <<currentEpoch, lastEpochTime, stakes>>]_vars

\* C21: an epoch transition increases the stake of every validator that is
\* active with stake >= minimumStake at that time, exactly once, by
\* stake * rewardRate * (epochDuration / one year) = stake * 5 / 5256000, and
\* leaves the stake of every inactive or under-minimum validator unchanged.
C21_EpochRewardsEligibleOnce ==
    [][currentEpoch' = currentEpoch + 1 =>
       /\ DOMAIN stakes' = DOMAIN stakes
       /\ \A a \in DOMAIN validators :
             stakes'[a] = IF validators[a].isActive /\ stakes[a] >= 1000
                          THEN stakes[a] + (stakes[a] * 5) \div 5256000
                          ELSE stakes[a]]_vars

\* an epoch transition has paid one validator and passed over an inactive one
C21_Witness ==
    /\ last = Result("checkEpochTransition", "ok")
    /\ currentEpoch = 1
    /\ \E a, b \in DOMAIN validators :
          /\ stakes[a] = 1051201
          /\ ~validators[b].isActive
          /\ stakes[b] < 1000

\* what the listener's call adds to the stake of validator a
ListenerDelta(call, a) ==
    IF call.address # a THEN 0
    ELSE IF call.op = "addStake" THEN call.amount
    ELSE IF call.op = "removeStake" THEN 0 - call.amount
    ELSE 0

\* C22: reward distribution works on a stable snapshot of the validators: when
\* a listener on 'stakeAdded' registers a validator or changes a stake while
\* the distribution is in progress, every validator eligible at the start is
\* paid exactly once (one reward, on its stake before or after the change) and
\* a validator registered during the distribution is not paid in that
\* transition (its stake is the stake it registered with).
C22_DistributionUsesSnapshot ==
    [][\A step \in ClockSteps, drift \in ClockDrifts, call \in ListenerCalls :
          (/\ EpochCheck(clock + step, drift, call)
           /\ currentEpoch' = currentEpoch + 1
           /\ last'.status = "ok") =>
             /\ \A a \in DOMAIN validators :
                   (validators[a].isActive /\ stakes[a] >= 1000) =>
                      LET changed == stakes[a] + ListenerDelta(call, a)
                      IN stakes'[a] - changed \in
                            {(stakes[a] * 5) \div 5256000, (changed * 5) \div 5256000}
             /\ \A a \in (DOMAIN validators') \ (DOMAIN validators) :
                   stakes'[a] = call.amount]_vars

\* C23: for every registry state with at least one eligible validator,
\* selectValidators never returns the same validator address twice and never
\* returns more validators than there are active validators, nor more than 21.
C23_SelectionIsDuplicateFree ==
    last = Result("selectValidators", "ok") =>
       /\ \A i, j \in 1..Len(selected) : selected[i] = selected[j] => i = j
       /\ Len(selected) <= Cardinality({a \in DOMAIN validators : validators[a].isActive})
       /\ Len(selected) <= 21

\* a sample of 21 out of more than 26 eligible validators that is not the
\* head of the list
C23_Witness ==
    /\ last = Result("selectValidators", "ok")
    /\ Len(selected) = 21
    /\ Len(validatorOrder) >= 27
    /\ selected[1] # validatorOrder[1]

\* a block with a hash, a previousHash, a timestamp, a proof in its payload
\* (the payload of every block but the genesis block) and only transactions
\* that name an address and have a non-negative amount
WellFormedBlock(blk) ==
    /\ blk.hash # <<>>
    /\ blk.previousHash # <<>>
    /\ blk.index # 0
    /\ \A j \in 1..Len(blk.transactions) :
          /\ Truthy(blk.transactions[j].fromAddress) \/ Truthy(blk.transactions[j].toAddress)
          /\ blk.transactions[j].amount >= 0

C25_AddStakeReactivates ==
    [][last' = Result("addStake", "ok") =>
       \A a \in DOMAIN validators :
          (~validators[a].isActive /\ stakes[a] < 1000 /\ stakes'[a] >= 1000)
             => validators'[a].isActive]_vars

\* C26: minePendingTransactions is the only operation that changes the chain:
\* addTransaction, getBalance, getTransactionHistory, isChainValid and every
\* consensus operation (registerValidator, addStake, removeStake,
\* selectValidators, validateBlock, slashValidator, epoch transition) leave
\* the chain unchanged, and a block stays in the chain whether validateBlock
\* failed for it or was never called.
C26_OnlySealChangesChain ==
    [][/\ chain' # chain => last'.op = "minePendingTransactions"
       /\ \A i \in 1..Len(chain) : Len(chain') >= i /\ chain'[i] = chain[i]]_vars

\* validateBlock has failed for the latest sealed block, which is in the chain
C26_Witness ==
    /\ last = Result("validateBlock", "throws")
    /\ Len(chain) >= 2
    /\ registryCalls = 1

\* C27: after any sequence of registry operations (registerValidator,
\* addStake, removeStake, slashValidator, epoch transitions), every
\* validator's stake is >= 0, in the stakes map and in the validator record.
C27_StakeIsNeverNegative ==
    \A a \in DOMAIN validators : stakes[a] >= 0 /\ validators[a].stake >= 0

\* C28: lockBitcoinAndMint(h, amount, r) for a verified Bitcoin transaction
\* (h of length 64, amount > 0), on an initialized bridge, succeeds: it appends
\* to the pending pool a mint transaction with absent fromAddress, toAddress r
\* and amount * (1 - bridgeFee), and it increases bridgeContract.totalLocked by
\* amount and totalMinted by the mint amount.
C28_LockBitcoinAndMintSucceeds ==
    [][\A h \in BitcoinTxHashes, amount \in BridgeAmounts, r \in Addresses :
          (/\ LockBitcoinAndMint(h, amount, r)
           /\ Len(h) = 64
           /\ amount > 0
           /\ bridgeContract.deployed) =>
             /\ last' = Result("lockBitcoinAndMint", "ok")
             /\ Len(pendingTransactions') = Len(pendingTransactions) + 1
             /\ LET t == pendingTransactions'[Len(pendingTransactions')]
                IN /\ t.fromAddress = Null
                   /\ t.toAddress = r
                   /\ t.amount = (amount * 999) \div 1000
             /\ bridgeContract'.totalLocked = bridgeContract.totalLocked + amount
             /\ bridgeContract'.totalMinted =
                   bridgeContract.totalMinted + (amount * 999) \div 1000]_vars

\* C29: swap on an existing pool, for one of its tokens, throws 'Invalid input
\* amount' for every amountIn <= 0, whatever minAmountOut is, and leaves the
\* pool reserves unchanged.
C29_SwapRejectsNonPositiveAmount ==
    [][\A p \in PoolIds, t \in Tokens, a \in SwapAmounts, m \in MinAmountsOut :
          (Swap(p, t, a, m) /\ p \in DOMAIN liquidityPools /\ a <= 0) =>
             /\ last' = Result("swap", "Invalid input amount")
             /\ liquidityPools' = liquidityPools]_vars

\* C30: isChainValid reports structural errors as a result and never by
\* raising: it returns false whenever some non-genesis block's previousHash
\* differs from its predecessor's hash or its stored hash differs from the
\* recomputed hash, and returns true otherwise.
C30_IsChainValidNeverRaises ==
    last.op = "isChainValid" =>
       /\ last.status # "throws"
       /\ last.status = "false" <=>
             \E i \in 2..Len(chain) :
                \/ chain[i].previousHash # chain[i - 1].hash
                \/ chain[i].hash # calculateHash(chain[i])

\* C31: for every registered validator, the stored voting power that
\* selectValidators reads (the votingPower map) equals calculateVotingPower
\* for the validator's current stake, reputation and active flag, after any
\* sequence of registerValidator, addStake, removeStake, validateBlock,
\* slashValidator and epoch transitions.
C31_VotingPowerIsCurrent ==
    \A a \in DOMAIN validators :
       GetOr0(votingPower, a) = calculateVotingPower(validators, stakes, a)

\* C32: when min(eligibleCount, 21) >= 0.8 * eligibleCount (at most 26 active
\* validators with stake >= minimumStake), selectValidators uses no randomness
\* and returns exactly the min(eligibleCount, 21) eligible validators with the
\* highest voting power, in non-increasing order of voting power.
C32_TopShareIsSortedPrefix ==
    (last = Result("selectValidators", "ok")
        /\ Len(activeValidators(Registry)) <= 26) =>
       /\ Len(selected) = Min(Len(activeValidators(Registry)), 21)
       /\ SetOf(selected) \subseteq SetOf(activeValidators(Registry))
       /\ \A i, j \in 1..Len(selected) : selected[i] = selected[j] => i = j
       /\ \A i \in 1..(Len(selected) - 1) :
             powerOf(Registry, selected[i]) >= powerOf(Registry, selected[i + 1])
       /\ \A a \in SetOf(activeValidators(Registry)) \ SetOf(selected) :
             \A i \in 1..Len(selected) :
                powerOf(Registry, selected[i]) >= powerOf(Registry, a)
       /\ \A stream \in RandomStreams :
             selectValidators(Registry, stream).value = selected

\* 26 eligible validators, of which the 21 with the most voting power are
\* returned, V2 with its stake of 2000 before V1
C32_Witness ==
    /\ last = Result("selectValidators", "ok")
    /\ Len(activeValidators(Registry)) = 26
    /\ Len(selected) = 21
    /\ selected[1] = ValidatorName(2)

\* the validator that owns the draw randomValue: the first one, in the order
\* of the candidates, whose cumulative power reaches randomValue
OwnerOf(R, active, randomValue) ==
    active[CHOOSE j \in 1..Len(active) :
              /\ randomValue <= totalPower(R, SubSeq(active, 1, j))
              /\ \A k \in 1..(j - 1) : randomValue > totalPower(R, SubSeq(active, 1, k))]

\* the validators that own the values drawn from a stream
OwnersOf(R, active, stream) ==
    {OwnerOf(R, active, randomValueOf(totalPower(R, active), stream[d])) :
        d \in 1..Len(stream)}

\* C33: in the weighted-sampling path of selectValidators, each draw r in
\* [0, totalPower) either adds the validator that owns r (the first validator
\* whose cumulative power reaches r) when that validator is not yet selected,
\* or adds nobody; a draw owned by an already-selected validator never adds a
\* different validator. Hence every validator returned owns one of the values
\* drawn.
C33_DrawAddsOnlyItsOwner ==
    [][Len(activeValidators(Registry)) > 26 =>
          \A stream \in RandomStreams :
             SelectValidators(stream) =>
                SetOf(selected') \subseteq
                   OwnersOf(Registry, activeValidators(Registry), stream)]_vars

\* C34: every validator's reputation is an integer in 0..100 in every
\* reachable state: 50 on registration, 100 for the genesis validator, +1
\* capped at 100 on a successful validation, -5 floored at 0 on a failed
\* validation and -20 floored at 0 on slashing.
C34_ReputationStaysInRange ==
    /\ \A a \in DOMAIN validators : validators[a].reputation \in 0..100
    /\ validators[genesisValidator].reputation = 100
    /\ [][\A a \in DOMAIN validators' :
             /\ validators'[a].reputation \in 0..100
             /\ IF a \notin DOMAIN validators THEN validators'[a].reputation = 50
                ELSE \/ validators'[a].reputation = validators[a].reputation
                     \/ /\ last' = Result("validateBlock", "ok")
                        /\ validators'[a].reputation =
                              IF validators[a].reputation + 1 > 100 THEN 100
                              ELSE validators[a].reputation + 1
                     \/ /\ last' = Result("validateBlock", "throws")
                        /\ validators'[a].reputation =
                              IF validators[a].reputation - 5 < 0 THEN 0
                              ELSE validators[a].reputation - 5
                     \/ /\ last' = Result("slashValidator", "ok")
                        /\ validators'[a].reputation =
                              IF validators[a].reputation - 20 < 0 THEN 0
                              ELSE validators[a].reputation - 20]_vars

\* a slashing has taken the reputation of V1 to the floor, and a validation by
\* the genesis validator has left its reputation at the cap
C34_Witness ==
    /\ last = Result("slashValidator", "ok")
    /\ validators["V1"].reputation = 0
    /\ validators[genesisValidator].reputation = 100
    /\ validators[genesisValidator].totalValidatedBlocks = 1

\* C35: validateBlock never changes the reputation or the validated-block
\* count of a validator that is inactive at the moment of the update, even
\* when its asynchronous validation step interleaves with a removeStake or
\* slashValidator call that deactivates the validator after the initial
\* active check.
C35_InactiveValidatorIsNotUpdated ==
    [][last'.op = "validateBlock" =>
          \A a \in DOMAIN validators :
             ~validators[a].isActive =>
                /\ validators'[a].reputation = validators[a].reputation
                /\ validators'[a].totalValidatedBlocks =
                      validators[a].totalValidatedBlocks]_vars

\* C36: for every registered validator, the stake stored in its validator
\* record equals its entry in the stakes map after any sequence of addStake
\* and removeStake calls, including calls made with a staker argument
\* different from the validator's address.
C36_RecordStakeMatchesStakesMap ==
    \A a \in DOMAIN validators : validators[a].stake = GetOr0(stakes, a)

\* the addresses of the ledger: senders, recipients and reward recipients
LedgerAddresses == Addresses \cup RewardAddresses

\* the sum of getBalance over a set of addresses
RECURSIVE SumOfBalances(_)
SumOfBalances(S) ==
    IF S = {} THEN 0
    ELSE LET a == CHOOSE x \in S : TRUE
         IN getBalance(a) + SumOfBalances(S \ {a})

\* C37: in the Node ledger the sum of getBalance over all addresses equals
\* miningReward * (chain length - 1) in every reachable state: only the single
\* reward transaction of each block creates value, and every other sealed
\* transaction has both a sender and a recipient.
C37_BalancesSumToRewards ==
    SumOfBalances(LedgerAddresses) = miningReward * (Len(chain) - 1)

\* the transactions of the blocks of a chain, one after the other
RECURSIVE TransactionsOfChain(_)
TransactionsOfChain(c) ==
    IF c = <<>> THEN <<>>
    ELSE TransactionsOfChain(SubSeq(c, 1, Len(c) - 1)) \o c[Len(c)].transactions

StandaloneAddresses == {genesisAddress, "A", "B"}

\* C38: in the standalone (browser) ledger, under any interleaving of
\* addTransaction calls with an in-progress asynchronous
\* minePendingTransactions, the balances map equals, for every address, the
\* genesis allocation plus the replay of the transactions contained in the
\* sealed chain.
C38_BalancesReplayTheChain ==
    standalone.chain # <<>> =>
       \A a \in StandaloneAddresses :
          standaloneBalance(standalone.balances, a) =
             (IF a = genesisAddress THEN genesisAllocation ELSE 0)
                + BalanceOfTxs(TransactionsOfChain(standalone.chain), a)

\* the numbers of the transactions of a sequence
IdsOf(txs) == {txs[j].id : j \in 1..Len(txs)}

\* in how many blocks of the standalone chain the transaction numbered n is
BlocksHolding(n) ==
    Cardinality({i \in 1..Len(standalone.chain) :
                    n \in IdsOf(standalone.chain[i].transactions)})

\* C39: in the standalone ledger, a transaction accepted by addTransaction
\* while a minePendingTransactions call is still searching for a nonce is not
\* lost: it stays pending or is included in a block, and it ends up in exactly
\* one sealed block.
C39_AcceptedDuringMiningIsKept ==
    \A n \in standalone.duringMining :
       \/ n \in IdsOf(standalone.pendingTransactions) /\ BlocksHolding(n) = 0
       \/ n \notin IdsOf(standalone.pendingTransactions) /\ BlocksHolding(n) = 1

\* C40: in the standalone ledger, when two asynchronous
\* minePendingTransactions calls overlap, the chain still satisfies
\* chain[i].index = i and chain[i].previousHash = chain[i-1].hash for every
\* i > 0 (isChainValid stays true), and no transaction appears in two blocks.
C40_OverlappingMinesKeepTheChain ==
    /\ \A i \in 2..Len(standalone.chain) :
          /\ standalone.chain[i].index = i - 1
          /\ standalone.chain[i].previousHash = standalone.chain[i - 1].hash
    /\ standaloneIsChainValid(standalone.chain)
    /\ \A n \in 1..(standalone.nextId - 1) : BlocksHolding(n) <= 1

====
